---- MODULE Spec2Model ----
(***************************************************************************)
(* A model of sherlock, a reverse proxy for LLM HTTP APIs.                 *)
(*                                                                         *)
(*   proxy.rs      handle_request: route, read body, parse and publish an  *)
(*                 event, forward upstream, relay the response             *)
(*   parser.rs     detect_provider, parse_request, the three vendor        *)
(*                 parsers, extract_text_from_value                        *)
(*   main.rs       run_server: the two bounded channels (events, archive), *)
(*                 the three tasks, the shutdown                           *)
(*   dashboard.rs  Dashboard::run, the consumer of the event channel       *)
(*   archive.rs    archive_writer, the consumer of the archive channel     *)
(*                                                                         *)
(* Strings that the code inspects (paths, patterns, header names) are      *)
(* sequences of one-character strings; header values and bodies are        *)
(* sequences of byte values. The text inside JSON values is a sequence of  *)
(* symbols, "\n" being the newline.                                        *)
(***************************************************************************)
EXTENDS Integers, Sequences, FiniteSets, TLC

VARIABLES
    iterOrder,     \* iteration order of the providers HashMap (fixed per process)
    pc,            \* pc[h]: position of connection handler h inside handle_request
    req,           \* req[h]: the inbound request being handled
    reqId,         \* reqId[h]: << h, serial number of that request >>
    provider,      \* provider[h]: provider_name chosen by detect_provider
    bodyRead,      \* bodyRead[h]: outcome of req.collect(): "no", "ok", "err"
    tele,          \* tele[h]: outcome of the telemetry step for this request
    upSent,        \* upSent[h]: upstream requests sent for this request
    upResp,        \* upResp[h]: what the upstream did with the request
    resp,          \* resp[h]: the response returned to the client
    accepted,      \* number of requests accepted so far
    eventQ,        \* the primary channel (event_tx / event_rx)
    enqueued,      \* history: the events for which try_send returned Ok, in order
    aggPc,         \* position of Dashboard::run: "select", "sending", "exited",
                   \* "panicked", and "returned" once run_server has returned
    pending,       \* the event Dashboard::run is sending to the archive channel
    total_tokens,  \* Dashboard.total_tokens
    requests,      \* Dashboard.requests (front first)
    archiveQ,      \* the secondary channel (archive_tx / archive_rx)
    received,      \* history: the events event_rx.recv() has yielded, in order
    archived,      \* history: the events archive_writer's rx.recv() has yielded
    proxyPc,       \* ProxyServer::run: "binding", "listening", "failed", "aborted"
    archPc,        \* archive_writer: "start", "draining", "writing", "ended",
                   \* "aborted"
    result,        \* what Dashboard::run returned: "running", "ok", "err"
    max_log_entries,   \* DashboardConfig.max_log_entries
    enabled,       \* ArchiveConfig.enabled
    encoding,      \* what cl100k_base() does in this process: "loads", "fails"
    disk,          \* the archive directory: "sound" (every write succeeds) or
                   \* "faulty" (a write may fail)
    written,       \* history: what save_prompt returned for each event it was
                   \* called on, in order: "ok", "err"
    vendor,        \* the provider argument of a parse_request call under study
    doc,           \* the JSON value of that call (raw_body), or the argument of
                   \* extract_text_from_value
    out            \* what the call returned; NoOutput before the call

vars == << iterOrder, pc, req, reqId, provider, bodyRead, tele, upSent, upResp, resp,
           accepted, eventQ, enqueued, aggPc, pending, total_tokens, requests, archiveQ,
           received, archived, proxyPc, archPc, result, max_log_entries, enabled,
           encoding, disk, written, vendor, doc, out >>

handlerVars == << pc, req, reqId, provider, bodyRead, tele, upSent, upResp, resp, accepted >>
parserVars == << vendor, doc, out >>
taskVars == << proxyPc, archPc, result, max_log_entries, enabled, encoding, disk >>
pipeVars == << aggPc, pending, total_tokens, requests, archiveQ, received, archived,
               written, taskVars >>

-----------------------------------------------------------------------------
(* Bounds of the model *)

NHandlers == 2        \* concurrent connection handlers
MaxRequests == 2      \* requests accepted in one run
PrimaryCap == 1       \* capacity of the event channel, scaled down from 1000
ArchiveCap == 2       \* capacity of the archive channel, scaled down from 100
MaxLogEntries == 2    \* largest DashboardConfig.max_log_entries configured
MaxHeaders == 2       \* headers in one request or response
MaxPathLen == 3       \* characters in a request path
MaxItems == 2         \* elements of a JSON array
MaxFields == 2        \* fields of a JSON object
TokenBits == 4        \* bits of the token counter, scaled down from 64

Handlers == 1..NHandlers

-----------------------------------------------------------------------------
(* Strings *)

LowerTable ==
    ("A" :> "a") @@ ("C" :> "c") @@ ("E" :> "e") @@ ("G" :> "g") @@
    ("H" :> "h") @@ ("K" :> "k") @@ ("M" :> "m") @@ ("T" :> "t") @@
    ("U" :> "u") @@ ("X" :> "x")

\* str::to_lowercase, character by character
ToLower(s) ==
    [i \in 1..Len(s) |-> IF s[i] \in DOMAIN LowerTable THEN LowerTable[s[i]] ELSE s[i]]

\* str::contains: pat occurs in s as a contiguous substring
Contains(s, pat) ==
    \E i \in 0..(Len(s) - Len(pat)) :
        \A j \in 1..Len(pat) : s[i + j] = pat[j]

\* all sequences over S of length at most n
SeqsUpTo(S, n) == UNION { [1..k -> S] : k \in 0..n }

-----------------------------------------------------------------------------
(* Headers *)

HopByHopNames ==
    { <<"c","o","n","n","e","c","t","i","o","n">>,
      <<"k","e","e","p","-","a","l","i","v","e">>,
      <<"p","r","o","x","y","-","a","u","t","h","e","n","t","i","c","a","t","e">>,
      <<"p","r","o","x","y","-","a","u","t","h","o","r","i","z","a","t","i","o","n">>,
      <<"t","e">>,
      <<"t","r","a","i","l","e","r","s">>,
      <<"t","r","a","n","s","f","e","r","-","e","n","c","o","d","i","n","g">>,
      <<"u","p","g","r","a","d","e">>,
      <<"h","o","s","t">> }

\* variant: the list without its last entry, host
is_hop_by_hop_header_without_host(name) ==
    name \in (HopByHopNames \ { <<"h","o","s","t">> })

is_hop_by_hop_header(name) == name \in HopByHopNames

ContentEncoding == <<"c","o","n","t","e","n","t","-","e","n","c","o","d","i","n","g">>

\* HeaderValue::to_str succeeds when every byte is visible ASCII or a tab
ToStrOk(value) ==
    \A i \in 1..Len(value) : value[i] = 9 \/ (value[i] >= 32 /\ value[i] < 127)

\* The HeaderMap hyper and reqwest hand to the code: header names are held
\* in lower case, values as received.
HeaderMapOf(wire) ==
    [i \in 1..Len(wire) |-> [name |-> ToLower(wire[i].name), value |-> wire[i].value]]

\* proxy.rs 155-162: the headers copied into the upstream request
UpstreamHeaders(headers) ==
    SelectSeq(headers,
        LAMBDA hd : /\ ~is_hop_by_hop_header(ToLower(hd.name))
                    /\ ToStrOk(hd.value))

\* proxy.rs 197-204: the headers copied into the client response
ResponseHeaders(headers) ==
    SelectSeq(headers,
        LAMBDA hd : /\ ~is_hop_by_hop_header(ToLower(hd.name))
                    /\ ToLower(hd.name) # ContentEncoding
                    /\ ToStrOk(hd.value))

-----------------------------------------------------------------------------
(* Methods *)

Methods == {"GET", "POST", "PUT", "DELETE", "PATCH", "HEAD", "OPTIONS",
            "CONNECT", "TRACE", "PROPFIND"}

method_to_reqwest(method) ==
    IF method \in {"GET", "POST", "PUT", "DELETE", "PATCH", "HEAD", "OPTIONS"}
    THEN method
    ELSE "GET"

-----------------------------------------------------------------------------
(* Providers *)

Providers == {"anthropic", "openai", "gemini"}

\* order of the provider entries in the configuration
ConfigOrder == <<"anthropic", "openai", "gemini">>

path_pattern ==
    [p \in Providers |->
        CASE p = "anthropic" -> <<"/","m">>
          [] p = "openai"    -> <<"/","c">>
          [] p = "gemini"    -> <<"g">>]

base_url ==
    [p \in Providers |->
        CASE p = "anthropic" -> "https://api.anthropic.com"
          [] p = "openai"    -> "https://api.openai.com"
          [] p = "gemini"    -> "https://generativelanguage.googleapis.com"]

\* every order in which a HashMap of the providers can iterate
IterOrders ==
    { o \in [1..Cardinality(Providers) -> Providers] :
        \A i, j \in DOMAIN o : i # j => o[i] # o[j] }

NoProvider == "none"

\* variant: the path is folded to lower case before matching
detect_provider_case_folded(path, order) ==
    LET hits == { i \in DOMAIN order :
                    Contains(ToLower(path), path_pattern[order[i]]) }
    IN  IF hits = {} THEN NoProvider
        ELSE order[CHOOSE i \in hits : \A j \in hits : i <= j]

\* parser.rs 232-239: the first provider, in the map's iteration order,
\* whose pattern the path contains
detect_provider(path, order) ==
    LET hits == { i \in DOMAIN order : Contains(path, path_pattern[order[i]]) }
    IN  IF hits = {} THEN NoProvider
        ELSE order[CHOOSE i \in hits : \A j \in hits : i <= j]

-----------------------------------------------------------------------------
(* Bodies and events *)

\* Bodies are byte sequences; each value stands for a chunk of the body.
BodyEmpty == << >>
BodyBad   == << 123 >>
BodyA     == << 65 >>
BodyB     == << 66 >>
BodyLong  == << 67 >>

\* serde_json::from_slice accepts the body
ValidJson(body) == body \in {BodyA, BodyB, BodyLong}

\* count_tokens of the text extracted from the body (the tokenizer is a black box)
\* BodyLong is a body of as many tokens as half the range of the counter
count_tokens(body) ==
    IF body = BodyA THEN 1
    ELSE IF body = BodyB THEN 2
    ELSE IF body = BodyLong THEN 2 ^ (TokenBits - 1)
    ELSE 0

\* parser.rs 19-49
parse_request(body, path, prov, id) ==
    IF ~ValidJson(body)
    THEN [ok |-> FALSE]
    ELSE [ok |-> TRUE,
          event |-> [id |-> id, provider |-> prov, tokens |-> count_tokens(body),
                     raw_body |-> body, path |-> path]]

\* parser.rs 9-16, 38: parse_request calls count_tokens for every body that
\* is JSON; the first call forces ENCODING, whose expect panics when
\* cl100k_base() fails, and every later call finds the Lazy poisoned and
\* panics as well. The panic unwinds the task of the connection
parse_request_panics(body) == ValidJson(body) /\ encoding = "fails"

\* Dashboard::run owns event_rx (dashboard.rs 42-46): the receiver is dropped
\* when run returns or unwinds
event_rx_dropped == aggPc \in {"exited", "returned", "panicked"}

\* mpsc::Sender::try_send on a channel of capacity cap
try_send(q, cap, e) ==
    IF Len(q) < cap THEN [ok |-> TRUE, q |-> Append(q, e)]
    ELSE [ok |-> FALSE, q |-> q]

-----------------------------------------------------------------------------
(* Requests and responses *)

H(n, v) == [name |-> n, value |-> v]

AsciiValue  == << 97 >>
Latin1Value == << 233 >>

NoRequest  == [method |-> "", path |-> << >>, wire |-> << >>, headers |-> << >>,
               body |-> << >>]
NoResponse == [status |-> 0, headers |-> << >>, body |-> << >>, diag |-> ""]
NoUpstream == [kind |-> "none", status |-> 0, wire |-> << >>, headers |-> << >>,
               body |-> << >>]

Request(m, p, w, b) ==
    [method |-> m, path |-> p, wire |-> w, headers |-> HeaderMapOf(w), body |-> b]

Diagnostic(status, text) ==
    [status |-> status, headers |-> << >>, body |-> << >>, diag |-> text]

UpstreamOk(status, w, b) ==
    [kind |-> "ok", status |-> status, wire |-> w, headers |-> HeaderMapOf(w),
     body |-> b]
UpstreamSendErr ==
    [kind |-> "send_err", status |-> 0, wire |-> << >>, headers |-> << >>,
     body |-> << >>]
UpstreamReadErr(status, w) ==
    [kind |-> "read_err", status |-> status, wire |-> w, headers |-> HeaderMapOf(w),
     body |-> << >>]

PathMessages == <<"/","m">>
PathUnknown  == <<"/">>

PipeHeaders == << H(<<"H","o","s","t">>, AsciiValue),
                  H(<<"x","-","a","p","i","-","k","e","y">>, AsciiValue) >>

\* the requests of the pipeline specification
PipeRequests ==
    { Request("POST", PathMessages, PipeHeaders, b) : b \in {BodyBad, BodyA} }

PipeRespHeaders == << H(<<"c","o","n","t","e","n","t","-","t","y","p","e">>, AsciiValue) >>

\* the upstream behaviours of the pipeline specification
PipeUpstreams ==
    { UpstreamOk(200, PipeRespHeaders, BodyA), UpstreamSendErr }

\* the header lines of the forwarding specification: every hop-by-hop name,
\* some of them in mixed and upper case, content-encoding, and end-to-end
\* headers with a visible-ASCII value and with a byte above 127
HeaderPool ==
    { H(n, AsciiValue) : n \in HopByHopNames }
    \cup { H(<<"H","o","s","t">>, AsciiValue),
           H(<<"T","E">>, AsciiValue),
           H(<<"C","o","n","n","e","c","t","i","o","n">>, AsciiValue),
           H(<<"T","r","a","n","s","f","e","r","-","E","n","c","o","d","i","n","g">>,
             AsciiValue),
           H(ContentEncoding, AsciiValue),
           H(<<"C","o","n","t","e","n","t","-","E","n","c","o","d","i","n","g">>,
             AsciiValue),
           H(<<"x","-","a","p","i","-","k","e","y">>, AsciiValue),
           H(<<"X","-","A","p","i","-","K","e","y">>, AsciiValue),
           H(<<"x","-","a","p","i","-","k","e","y">>, Latin1Value),
           H(<<"c","o","n","t","e","n","t","-","t","y","p","e">>, AsciiValue) }

\* the requests of the forwarding specification: every method, body and
\* kind of path with one header list, and every header list with one method
FwdRequests ==
    { Request(m, p, PipeHeaders, b) :
        m \in Methods,
        p \in {PathMessages, PathUnknown},
        b \in {BodyEmpty, BodyBad, BodyA, BodyB} }
    \cup { Request("POST", PathMessages, w, BodyA) :
             w \in SeqsUpTo(HeaderPool, MaxHeaders) }

\* the upstream behaviours of the forwarding specification for request r:
\* the upstream answers with the header lines of the request, so that
\* every header list of the pool occurs on both legs
FwdUpstreams(r) ==
    { UpstreamOk(st, r.wire, b) : st \in {200, 404}, b \in {BodyEmpty, BodyB} }
    \cup { UpstreamSendErr, UpstreamReadErr(200, r.wire) }

PathAlphabet == {"/", "m", "c", "g", "M"}

\* the requests of the routing specification: every path over the alphabet
\* (a request path starts with a slash)
RouteRequests ==
    { Request("POST", p, << >>, BodyA) :
        p \in { q \in SeqsUpTo(PathAlphabet, MaxPathLen) :
                    Len(q) >= 1 /\ q[1] = "/" } }

-----------------------------------------------------------------------------
(* serde_json::Value and extract_text_from_value, parser.rs 202-229 *)

\* A value is a record: t its kind, s the text of a string, items the
\* elements of an array or the fields [k, v] of an object in the iteration
\* order of the map
Null == [t |-> "null", s |-> << >>, items |-> << >>]
Bool == [t |-> "bool", s |-> << >>, items |-> << >>]
Num == [t |-> "num", s |-> << >>, items |-> << >>]
Str(text) == [t |-> "str", s |-> text, items |-> << >>]
Arr(elements) == [t |-> "arr", s |-> << >>, items |-> elements]
Obj(fields) == [t |-> "obj", s |-> << >>, items |-> fields]
F(key, value) == [k |-> key, v |-> value]

\* Value::get(key): Some for an object that has the key
Has(value, key) ==
    value.t = "obj" /\ \E i \in DOMAIN value.items : value.items[i].k = key

Get(value, key) ==
    value.items[CHOOSE i \in DOMAIN value.items : value.items[i].k = key].v

\* Value::get(key).and_then(|v| v.as_str())
HasStr(value, key) == Has(value, key) /\ Get(value, key).t = "str"

\* .unwrap_or(default) of the above
StrOr(value, key, default) ==
    IF HasStr(value, key) THEN Get(value, key).s ELSE default

NonEmpty(texts) == SelectSeq(texts, LAMBDA x : x # << >>)

\* [&str]::join("\n")
RECURSIVE JoinLines(_)
JoinLines(texts) ==
    IF texts = << >> THEN << >>
    ELSE IF Len(texts) = 1 THEN texts[1]
    ELSE texts[1] \o << "\n" >> \o JoinLines(Tail(texts))

\* A variant that looks at `content` before `text`
RECURSIVE extract_text_from_value_content_first(_)
extract_text_from_value_content_first(value) ==
    CASE value.t = "str" -> value.s
      [] value.t = "arr" ->
            JoinLines(NonEmpty([i \in DOMAIN value.items |->
                        extract_text_from_value_content_first(value.items[i])]))
      [] value.t = "obj" ->
            IF Has(value, "content")
            THEN extract_text_from_value_content_first(Get(value, "content"))
            ELSE IF HasStr(value, "text") THEN Get(value, "text").s
            ELSE JoinLines(NonEmpty([i \in DOMAIN value.items |->
                        extract_text_from_value_content_first(value.items[i].v)]))
      [] OTHER -> << >>

\* A variant that joins the extractions of an array without filtering
RECURSIVE extract_text_from_value_unfiltered(_)
extract_text_from_value_unfiltered(value) ==
    CASE value.t = "str" -> value.s
      [] value.t = "arr" ->
            JoinLines([i \in DOMAIN value.items |->
                        extract_text_from_value_unfiltered(value.items[i])])
      [] value.t = "obj" ->
            IF HasStr(value, "text") THEN Get(value, "text").s
            ELSE IF Has(value, "content")
            THEN extract_text_from_value_unfiltered(Get(value, "content"))
            ELSE JoinLines(NonEmpty([i \in DOMAIN value.items |->
                        extract_text_from_value_unfiltered(value.items[i].v)]))
      [] OTHER -> << >>

RECURSIVE extract_text_from_value(_)
extract_text_from_value(value) ==
    CASE value.t = "str" -> value.s
      [] value.t = "arr" ->
            JoinLines(NonEmpty([i \in DOMAIN value.items |->
                                    extract_text_from_value(value.items[i])]))
      [] value.t = "obj" ->
            IF HasStr(value, "text") THEN Get(value, "text").s
            ELSE IF Has(value, "content")
            THEN extract_text_from_value(Get(value, "content"))
            ELSE JoinLines(NonEmpty([i \in DOMAIN value.items |->
                                        extract_text_from_value(value.items[i].v)]))
      [] OTHER -> << >>

-----------------------------------------------------------------------------
(* The vendor parsers, parser.rs 19-200 *)

Message(role, content) == [role |-> role, content |-> content]

\* all_text: every non-empty text followed by a newline
RECURSIVE AllText(_)
AllText(texts) ==
    IF texts = << >> THEN << >>
    ELSE (IF texts[1] = << >> THEN << >> ELSE texts[1] \o << "\n" >>)
             \o AllText(Tail(texts))

Contents(messages) == [i \in DOMAIN messages |-> messages[i].content]

\* parser.rs 64-74, 155-165: the synthetic leading system message
SystemMessages(body, field) ==
    IF Has(body, field) /\ extract_text_from_value(Get(body, field)) # << >>
    THEN << Message(<< "system" >>, extract_text_from_value(Get(body, field))) >>
    ELSE << >>

\* parser.rs 79-96, 117-134: one element of the messages array
ChatMessage(msg) ==
    Message(StrOr(msg, "role", << "unknown" >>),
            IF Has(msg, "content")
            THEN extract_text_from_value(Get(msg, "content"))
            ELSE << >>)

\* parser.rs 77, 115, 168: `if let Some(Value::Array(..)) = body.get(field)`
ArrayField(body, field) ==
    IF Has(body, field) /\ Get(body, field).t = "arr"
    THEN Get(body, field).items
    ELSE << >>

Parsed(model, messages) ==
    [kind |-> "parsed", model |-> model, messages |-> messages,
     text |-> AllText(Contents(messages))]

\* parse_anthropic_request without lines 64-74
parse_anthropic_request_without_system(body) ==
    LET msgs == ArrayField(body, "messages")
    IN  Parsed(StrOr(body, "model", << "unknown" >>),
               [i \in DOMAIN msgs |-> ChatMessage(msgs[i])])

parse_anthropic_request(body) ==
    LET msgs == ArrayField(body, "messages")
    IN  Parsed(StrOr(body, "model", << "unknown" >>),
               SystemMessages(body, "system")
                   \o [i \in DOMAIN msgs |-> ChatMessage(msgs[i])])

\* parse_openai_request treating a top-level `system` as lines 64-74 do
parse_openai_request_with_system(body) ==
    LET msgs == ArrayField(body, "messages")
    IN  Parsed(StrOr(body, "model", << "unknown" >>),
               SystemMessages(body, "system")
                   \o [i \in DOMAIN msgs |-> ChatMessage(msgs[i])])

parse_openai_request(body) ==
    LET msgs == ArrayField(body, "messages")
    IN  Parsed(StrOr(body, "model", << "unknown" >>),
               [i \in DOMAIN msgs |-> ChatMessage(msgs[i])])

\* lines 177-185 replaced by the generic extraction of the element
PartsText_generic(content) == extract_text_from_value(content)

\* parser.rs 177-185: the text of one element of contents
PartsText(content) ==
    IF Has(content, "parts") /\ Get(content, "parts").t = "arr"
    THEN LET parts == Get(content, "parts").items
             texts == SelectSeq(parts, LAMBDA part : HasStr(part, "text"))
         IN  JoinLines([i \in DOMAIN texts |-> Get(texts[i], "text").s])
    ELSE extract_text_from_value(content)

parse_gemini_request(body) ==
    LET contents == ArrayField(body, "contents")
    IN  Parsed(StrOr(body, "model", << "gemini" >>),
               SystemMessages(body, "systemInstruction")
                   \o [i \in DOMAIN contents |->
                          Message(StrOr(contents[i], "role", << "user" >>),
                                  PartsText(contents[i]))])

\* the match with the OpenAI parser as its fallback arm
normalize_defaults_to_openai(prov, raw_body) ==
    CASE prov = "anthropic" -> parse_anthropic_request(raw_body)
      [] prov = "gemini" -> parse_gemini_request(raw_body)
      [] OTHER -> parse_openai_request(raw_body)

\* parser.rs 22-36: the match on the provider, for a body that is JSON
normalize(prov, raw_body) ==
    CASE prov = "anthropic" -> parse_anthropic_request(raw_body)
      [] prov = "openai" -> parse_openai_request(raw_body)
      [] prov = "gemini" -> parse_gemini_request(raw_body)
      [] OTHER -> [kind |-> "parsed",
                   model |-> StrOr(raw_body, "model", << "unknown" >>),
                   messages |-> << >>,
                   text |-> extract_text_from_value(raw_body)]

NoOutput == [kind |-> "none", model |-> << >>, messages |-> << >>, text |-> << >>]
Extracted(text) == [kind |-> "text", model |-> << >>, messages |-> << >>, text |-> text]

\* extract_text_from_value is called on doc
Extract ==
    /\ out = NoOutput
    /\ vendor = ""
    /\ out' = Extracted(extract_text_from_value(doc))
    /\ UNCHANGED << iterOrder, vendor, doc, handlerVars, eventQ, enqueued, pipeVars >>

\* a body that serde_json::from_slice rejects
Malformed == [t |-> "malformed", s |-> << >>, items |-> << >>]

\* parse_request returns the error of line 20; the panic of count_tokens
Failed == [kind |-> "err", model |-> << >>, messages |-> << >>, text |-> << >>]
Panicked == [kind |-> "panic", model |-> << >>, messages |-> << >>, text |-> << >>]

\* parse_request is called with provider vendor on a body that parses to doc,
\* or on a malformed one
Normalize ==
    /\ out = NoOutput
    /\ vendor # ""
    /\ out' = IF doc = Malformed THEN Failed
              ELSE IF encoding = "fails" THEN Panicked
              ELSE normalize(vendor, doc)
    /\ UNCHANGED << iterOrder, vendor, doc, handlerVars, eventQ, enqueued, pipeVars >>

-----------------------------------------------------------------------------
(* The JSON values given to the parser *)

Texts == { << >>, << "a" >>, << "b" >> }
Leaves == { Null, Bool, Num } \cup { Str(x) : x \in Texts }
Keys == { "text", "content", "k" }

\* the field lists of at most n fields over the keys, with values in V: the
\* keys of a map are distinct, its iteration order is any
FieldLists(V, n) ==
    { fs \in SeqsUpTo({ F(key, v) : key \in Keys, v \in V }, n) :
        \A i, j \in DOMAIN fs : i # j => fs[i].k # fs[j].k }

Containers(V) ==
    { Arr(es) : es \in SeqsUpTo(V, MaxItems) }
    \cup { Obj(fs) : fs \in FieldLists(V, MaxFields) }

\* containers to put inside containers
NestedParts ==
    { Null, Str(<< >>), Str(<< "a" >>),
      Arr(<< >>),
      Arr(<< Str(<< "a" >>), Str(<< "b" >>) >>),
      Arr(<< Str(<< >>), Null >>),
      Arr(<< Obj(<< F("k", Str(<< "x" >>)), F("text", Str(<< "a" >>)) >>),
             Obj(<< F("text", Str(<< "b" >>)) >>) >>),
      Obj(<< >>),
      Obj(<< F("text", Str(<< "b" >>)) >>),
      Obj(<< F("content", Arr(<< Str(<< "a" >>), Str(<< "b" >>) >>)) >>),
      Obj(<< F("text", Num), F("k", Str(<< "b" >>)) >>) }

ExtractValues == Leaves \cup Containers(Leaves) \cup Containers(NestedParts)

\* The bodies given to parse_request: the top-level fields a vendor parser
\* looks at, each absent, of the expected shape or of another one
ModelFields == { << >>, << F("model", Str(<< "m" >>)) >>, << F("model", Num) >> }

TextBlocks == Arr(<< Obj(<< F("type", Str(<< "text" >>)), F("text", Str(<< "a" >>)) >>),
                     Obj(<< F("text", Str(<< "b" >>)) >>) >>)

SystemFields ==
    { << >>,
      << F("system", Str(<< "s" >>)) >>,
      << F("system", Str(<< >>)) >>,
      << F("system", TextBlocks) >>,
      << F("system", Num) >> }

ChatElements ==
    { Obj(<< F("role", Str(<< "user" >>)), F("content", Str(<< "a" >>)) >>),
      Obj(<< F("role", Str(<< "system" >>)), F("content", Str(<< "s" >>)) >>),
      Obj(<< F("content", TextBlocks) >>),
      Obj(<< F("role", Num), F("content", Str(<< >>)) >>),
      Obj(<< F("role", Str(<< "assistant" >>)) >>),
      Str(<< "a" >>) }

ListFields(field, elements) ==
    { << >>, << F(field, Str(<< "a" >>)) >> }
    \cup { << F(field, Arr(es)) >> : es \in SeqsUpTo(elements, MaxItems) }

ChatBodies ==
    { Obj(m \o s \o l) :
        m \in ModelFields, s \in SystemFields, l \in ListFields("messages", ChatElements) }
    \cup { Null, Arr(<< Str(<< "a" >>) >>) }

Part(text) == Obj(<< F("text", text) >>)

GeminiElements ==
    { Obj(<< F("role", Str(<< "user" >>)),
             F("parts", Arr(<< Part(Str(<< "a" >>)), Part(Str(<< "b" >>)) >>)) >>),
      Obj(<< F("parts", Arr(<< Part(Str(<< "a" >>)),
                               Obj(<< F("k", Str(<< "b" >>)) >>) >>)) >>),
      Obj(<< F("role", Str(<< "model" >>)),
             F("parts", Arr(<< Part(Num), Part(Str(<< >>)), Part(Str(<< "b" >>)) >>)) >>),
      Obj(<< F("role", Str(<< "user" >>)), F("text", Str(<< "a" >>)) >>),
      Obj(<< F("role", Num), F("parts", Str(<< "a" >>)) >>),
      Obj(<< F("parts", Arr(<< >>)) >>) }

InstructionFields ==
    { << >>,
      << F("systemInstruction", Obj(<< F("parts", Arr(<< Part(Str(<< "s" >>)) >>)) >>)) >>,
      << F("systemInstruction", Str(<< >>)) >>,
      << F("systemInstruction", Num) >> }

GeminiBodies ==
    { Obj(m \o s \o l) :
        m \in ModelFields, s \in InstructionFields,
        l \in ListFields("contents", GeminiElements) }
    \cup { Null }

\* a provider name of the configuration that parse_request does not know
OtherVendor == "mistral"

ParseInputs ==
    { << p, body >> : p \in {"anthropic", "openai", OtherVendor}, body \in ChatBodies }
    \cup { << "gemini", body >> : body \in GeminiBodies }
    \cup { << p, Malformed >> : p \in {"anthropic", "openai", "gemini", OtherVendor} }

-----------------------------------------------------------------------------
(* handle_request, proxy.rs 92-207 *)

\* A request of the pool arrives on connection h (proxy.rs 98-107); a
\* connection serves its requests one after the other, limit in all. The
\* listener accepts connections only once bound (proxy.rs 46-56)
Accept(h, pool, limit) ==
    /\ proxyPc = "listening"
    /\ pc[h] \in {"idle", "done", "panicked"}
    /\ accepted < limit
    /\ \E r \in pool : req' = [req EXCEPT ![h] = r]
    /\ accepted' = accepted + 1
    /\ reqId' = [reqId EXCEPT ![h] = << h, accepted + 1 >>]
    /\ pc' = [pc EXCEPT ![h] = "route"]
    /\ provider' = [provider EXCEPT ![h] = NoProvider]
    /\ bodyRead' = [bodyRead EXCEPT ![h] = "no"]
    /\ tele' = [tele EXCEPT ![h] = "none"]
    /\ upSent' = [upSent EXCEPT ![h] = << >>]
    /\ upResp' = [upResp EXCEPT ![h] = NoUpstream]
    /\ resp' = [resp EXCEPT ![h] = NoResponse]
    /\ UNCHANGED << iterOrder, parserVars, eventQ, enqueued, pipeVars >>

\* variant: an unmatched path falls through to the first configured provider
Route_falls_through(h) ==
    /\ pc[h] = "route"
    /\ LET name == detect_provider(req[h].path, iterOrder)
       IN  provider' = [provider EXCEPT ![h] =
                           IF name = NoProvider THEN ConfigOrder[1] ELSE name]
    /\ pc' = [pc EXCEPT ![h] = "read"]
    /\ UNCHANGED << iterOrder, parserVars, req, reqId, bodyRead, tele, upSent, upResp, resp,
                    accepted, eventQ, enqueued, pipeVars >>

\* proxy.rs 109-121
Route(h) ==
    /\ pc[h] = "route"
    /\ LET name == detect_provider(req[h].path, iterOrder)
       IN  IF name = NoProvider
           THEN /\ resp' = [resp EXCEPT ![h] = Diagnostic(400, "Unknown provider")]
                /\ pc' = [pc EXCEPT ![h] = "done"]
                /\ UNCHANGED provider
           ELSE /\ provider' = [provider EXCEPT ![h] = name]
                /\ pc' = [pc EXCEPT ![h] = "read"]
                /\ UNCHANGED resp
    /\ UNCHANGED << iterOrder, parserVars, req, reqId, bodyRead, tele, upSent, upResp, accepted,
                    eventQ, enqueued, pipeVars >>

\* proxy.rs 123-133: req.collect().await
\* A variant that returns the body read error to hyper (`?`) instead of
\* answering
ReadBody_propagates_error(h) ==
    /\ pc[h] = "read"
    /\ \/ /\ bodyRead' = [bodyRead EXCEPT ![h] = "ok"]
          /\ pc' = [pc EXCEPT ![h] = "parse"]
       \/ /\ bodyRead' = [bodyRead EXCEPT ![h] = "err"]
          /\ pc' = [pc EXCEPT ![h] = "done"]
    /\ UNCHANGED << iterOrder, parserVars, req, reqId, provider, tele, upSent, upResp, resp,
                    accepted, eventQ, enqueued, pipeVars >>

\* A variant that goes on with the request after a failed read
ReadBody_continues_on_error(h) ==
    /\ pc[h] = "read"
    /\ \E outcome \in {"ok", "err"} : bodyRead' = [bodyRead EXCEPT ![h] = outcome]
    /\ pc' = [pc EXCEPT ![h] = "parse"]
    /\ UNCHANGED << iterOrder, parserVars, req, reqId, provider, tele, upSent, upResp, resp,
                    accepted, eventQ, enqueued, pipeVars >>

ReadBody(h) ==
    /\ pc[h] = "read"
    /\ \/ /\ bodyRead' = [bodyRead EXCEPT ![h] = "ok"]
          /\ pc' = [pc EXCEPT ![h] = "parse"]
          /\ UNCHANGED resp
       \/ /\ bodyRead' = [bodyRead EXCEPT ![h] = "err"]
          /\ resp' = [resp EXCEPT ![h] = Diagnostic(400, "Failed to read request body")]
          /\ pc' = [pc EXCEPT ![h] = "done"]
    /\ UNCHANGED << iterOrder, parserVars, req, reqId, provider, tele, upSent, upResp, accepted,
                    eventQ, enqueued, pipeVars >>

\* variant: the event is published with the awaiting send
ParseAndPublish_awaiting_send(h) ==
    /\ pc[h] = "parse"
    /\ IF req[h].body = BodyEmpty
       THEN /\ tele' = [tele EXCEPT ![h] = "empty"]
            /\ UNCHANGED << eventQ, enqueued >>
       ELSE LET parsed == parse_request(req[h].body, req[h].path, provider[h],
                                        reqId[h])
            IN  IF parsed.ok
                THEN /\ Len(eventQ) < PrimaryCap
                     /\ eventQ' = Append(eventQ, parsed.event)
                     /\ enqueued' = Append(enqueued, parsed.event)
                     /\ tele' = [tele EXCEPT ![h] = "enqueued"]
                ELSE /\ tele' = [tele EXCEPT ![h] = "parse_failed"]
                     /\ UNCHANGED << eventQ, enqueued >>
    /\ pc' = [pc EXCEPT ![h] = "forward"]
    /\ UNCHANGED << iterOrder, parserVars, req, reqId, provider, bodyRead, upSent, upResp, resp,
                    accepted, pipeVars >>

\* variant: a full event channel ends the request with a 503
ParseAndPublish_full_is_error(h) ==
    /\ pc[h] = "parse"
    /\ LET parsed == parse_request(req[h].body, req[h].path, provider[h], reqId[h])
           sent == try_send(eventQ, PrimaryCap, parsed.event)
       IN  IF req[h].body = BodyEmpty \/ ~parsed.ok
           THEN /\ tele' = [tele EXCEPT ![h] =
                              IF req[h].body = BodyEmpty THEN "empty"
                              ELSE "parse_failed"]
                /\ pc' = [pc EXCEPT ![h] = "forward"]
                /\ UNCHANGED << eventQ, enqueued, resp >>
           ELSE IF sent.ok
           THEN /\ eventQ' = sent.q
                /\ enqueued' = Append(enqueued, parsed.event)
                /\ tele' = [tele EXCEPT ![h] = "enqueued"]
                /\ pc' = [pc EXCEPT ![h] = "forward"]
                /\ UNCHANGED resp
           ELSE /\ tele' = [tele EXCEPT ![h] = "dropped"]
                /\ resp' = [resp EXCEPT ![h] = Diagnostic(503, "Event queue full")]
                /\ pc' = [pc EXCEPT ![h] = "done"]
                /\ UNCHANGED << eventQ, enqueued >>
    /\ UNCHANGED << iterOrder, parserVars, req, reqId, provider, bodyRead, upSent, upResp,
                    accepted, pipeVars >>

\* proxy.rs 135-147
\* A variant that keeps the event for a later attempt when the channel is
\* full
ParseAndPublish_retries_when_full(h) ==
    /\ pc[h] = "parse"
    /\ IF req[h].body = BodyEmpty
       THEN /\ tele' = [tele EXCEPT ![h] = "empty"]
            /\ pc' = [pc EXCEPT ![h] = "forward"]
            /\ UNCHANGED << eventQ, enqueued >>
       ELSE LET parsed == parse_request(req[h].body, req[h].path, provider[h],
                                        reqId[h])
            IN  IF parsed.ok
                THEN LET sent == try_send(eventQ, PrimaryCap, parsed.event)
                     IN  /\ eventQ' = sent.q
                         /\ enqueued' = (IF sent.ok THEN Append(enqueued, parsed.event)
                                         ELSE enqueued)
                         /\ tele' = [tele EXCEPT ![h] =
                                        IF sent.ok THEN "enqueued" ELSE "dropped"]
                         /\ pc' = [pc EXCEPT ![h] =
                                        IF sent.ok THEN "forward" ELSE "parse"]
                ELSE /\ tele' = [tele EXCEPT ![h] = "parse_failed"]
                     /\ pc' = [pc EXCEPT ![h] = "forward"]
                     /\ UNCHANGED << eventQ, enqueued >>
    /\ UNCHANGED << iterOrder, parserVars, req, reqId, provider, bodyRead, upSent, upResp, resp,
                    accepted, pipeVars >>

\* A variant that goes on to forward without publishing
ParseAndPublish_without_publishing(h) ==
    /\ pc[h] = "parse"
    /\ pc' = [pc EXCEPT ![h] = "forward"]
    /\ UNCHANGED << iterOrder, parserVars, req, reqId, provider, bodyRead, tele, upSent, upResp,
                    resp, accepted, eventQ, enqueued, pipeVars >>

\* proxy.rs 135-147. try_send fails when the channel is full and when
\* Dashboard::run has returned, which drops event_rx; both are only logged
ParseAndPublish(h) ==
    /\ pc[h] = "parse"
    /\ IF req[h].body = BodyEmpty
       THEN /\ tele' = [tele EXCEPT ![h] = "empty"]
            /\ pc' = [pc EXCEPT ![h] = "forward"]
            /\ UNCHANGED << eventQ, enqueued >>
       ELSE IF parse_request_panics(req[h].body)
       THEN /\ pc' = [pc EXCEPT ![h] = "panicked"]
            /\ UNCHANGED << tele, eventQ, enqueued >>
       ELSE LET parsed == parse_request(req[h].body, req[h].path, provider[h],
                                        reqId[h])
            IN  /\ pc' = [pc EXCEPT ![h] = "forward"]
                /\ IF parsed.ok
                   THEN LET sent == IF event_rx_dropped
                                    THEN [ok |-> FALSE, q |-> eventQ]
                                    ELSE try_send(eventQ, PrimaryCap, parsed.event)
                        IN  /\ eventQ' = sent.q
                            /\ enqueued' = (IF sent.ok
                                            THEN Append(enqueued, parsed.event)
                                            ELSE enqueued)
                            /\ tele' = [tele EXCEPT ![h] =
                                           IF sent.ok THEN "enqueued" ELSE "dropped"]
                   ELSE /\ tele' = [tele EXCEPT ![h] = "parse_failed"]
                        /\ UNCHANGED << eventQ, enqueued >>
    /\ UNCHANGED << iterOrder, parserVars, req, reqId, provider, bodyRead, upSent, upResp, resp,
                    accepted, pipeVars >>

\* proxy.rs 149-165: the request handed to the upstream client
UpstreamRequest(r, prov) ==
    [method  |-> method_to_reqwest(r.method),
     url     |-> << base_url[prov], r.path >>,
     headers |-> UpstreamHeaders(r.headers),
     body    |-> r.body]

\* proxy.rs 149-168: build the upstream request and send it
Forward(h) ==
    /\ pc[h] = "forward"
    /\ upSent' = [upSent EXCEPT ![h] = Append(@, UpstreamRequest(req[h], provider[h]))]
    /\ pc' = [pc EXCEPT ![h] = "await"]
    /\ UNCHANGED << iterOrder, parserVars, req, reqId, provider, bodyRead, tele, upResp, resp,
                    accepted, eventQ, enqueued, pipeVars >>

\* variant: a failed send is tried again
UpstreamReply_retries(h, pool) ==
    /\ pc[h] = "await"
    /\ \E u \in pool :
          /\ upResp' = [upResp EXCEPT ![h] = u]
          /\ pc' = [pc EXCEPT ![h] = IF u.kind = "send_err" THEN "forward" ELSE "relay"]
    /\ UNCHANGED << iterOrder, parserVars, req, reqId, provider, bodyRead, tele, upSent, resp,
                    accepted, eventQ, enqueued, pipeVars >>

\* proxy.rs 168-181: upstream_req.send().await completes
UpstreamReply(h, pool) ==
    /\ pc[h] = "await"
    /\ \E u \in pool :
          /\ upResp' = [upResp EXCEPT ![h] = u]
          /\ IF u.kind = "send_err"
             THEN /\ resp' = [resp EXCEPT ![h] = Diagnostic(502, "Upstream error")]
                  /\ pc' = [pc EXCEPT ![h] = "done"]
             ELSE /\ pc' = [pc EXCEPT ![h] = "relay"]
                  /\ UNCHANGED resp
    /\ UNCHANGED << iterOrder, parserVars, req, reqId, provider, bodyRead, tele, upSent,
                    accepted, eventQ, enqueued, pipeVars >>

\* proxy.rs 183-206: upstream_resp.bytes().await completes
Relay(h) ==
    /\ pc[h] = "relay"
    /\ IF upResp[h].kind = "read_err"
       THEN resp' = [resp EXCEPT ![h] =
                        Diagnostic(502, "Failed to read upstream response")]
       ELSE resp' = [resp EXCEPT ![h] =
                        [status  |-> upResp[h].status,
                         headers |-> ResponseHeaders(upResp[h].headers),
                         body    |-> upResp[h].body,
                         diag    |-> ""]]
    /\ pc' = [pc EXCEPT ![h] = "done"]
    /\ UNCHANGED << iterOrder, parserVars, req, reqId, provider, bodyRead, tele, upSent, upResp,
                    accepted, eventQ, enqueued, pipeVars >>

-----------------------------------------------------------------------------
(* Dashboard::run and archive_writer *)

\* the u64 of Dashboard.total_tokens (dashboard.rs 25), its width scaled down
U64Max == 2 ^ TokenBits - 1
WrapU64(n) == n % (2 ^ TokenBits)

\* event.rs 43-52
RequestInfo(e) == [id |-> e.id, provider |-> e.provider, tokens |-> e.tokens]

\* A variant that stores the token count of the event instead of adding it
add_request_overwrites_total(total, reqs, e, cap) ==
    LET pushed == << RequestInfo(e) >> \o reqs
    IN  [total_tokens |-> e.tokens,
         overflows |-> FALSE,
         requests |-> IF Len(pushed) > cap THEN SubSeq(pushed, 1, cap) ELSE pushed]

\* A variant that evicts as soon as the length reaches the capacity
add_request_evicts_at_capacity(total, reqs, e, cap) ==
    LET pushed == << RequestInfo(e) >> \o reqs
    IN  [total_tokens |-> WrapU64(total + e.tokens),
         overflows |-> total + e.tokens > U64Max,
         requests |-> IF Len(pushed) >= cap THEN SubSeq(pushed, 1, cap - 1) ELSE pushed]

\* A variant that pushes at the back and evicts from the front
add_request_pushes_back(total, reqs, e, cap) ==
    LET pushed == reqs \o << RequestInfo(e) >>
    IN  [total_tokens |-> WrapU64(total + e.tokens),
         overflows |-> total + e.tokens > U64Max,
         requests |-> IF Len(pushed) > cap
                      THEN SubSeq(pushed, Len(pushed) - cap + 1, Len(pushed))
                      ELSE pushed]

\* dashboard.rs 96-111; line 97 is a plain `+=` on a u64: the sum kept to
\* the width of the counter, and whether it went past it
add_request(total, reqs, e, cap) ==
    LET pushed == << RequestInfo(e) >> \o reqs
    IN  [total_tokens |-> WrapU64(total + e.tokens),
         overflows |-> total + e.tokens > U64Max,
         requests |-> IF Len(pushed) > cap THEN SubSeq(pushed, 1, cap) ELSE pushed]

\* dashboard.rs 61-62: event_rx.recv() yields an event and add_request is
\* called on it. When the sum does not fit the counter, a build without
\* overflow checks (release) keeps the wrapped sum; a build with them (debug)
\* panics at line 97, in the task of run_server itself: the process ends and
\* its tasks with it
AggRecv ==
    /\ aggPc = "select"
    /\ eventQ # << >>
    /\ LET e == Head(eventQ)
           s == add_request(total_tokens, requests, e, max_log_entries)
       IN  /\ received' = Append(received, e)
           /\ \E build \in (IF s.overflows THEN {"release", "debug"} ELSE {"release"}) :
                  IF build = "debug"
                  THEN /\ aggPc' = "panicked"
                       /\ pending' = << >>
                       /\ proxyPc' = (IF proxyPc = "failed" THEN proxyPc ELSE "aborted")
                       /\ archPc' = (IF archPc = "ended" THEN archPc ELSE "aborted")
                       /\ UNCHANGED << total_tokens, requests >>
                  ELSE /\ aggPc' = "sending"
                       /\ pending' = << e >>
                       /\ total_tokens' = s.total_tokens
                       /\ requests' = s.requests
                       /\ UNCHANGED << proxyPc, archPc >>
    /\ eventQ' = Tail(eventQ)
    /\ UNCHANGED << iterOrder, parserVars, handlerVars, enqueued, archiveQ, archived, result,
                    max_log_entries, enabled, encoding, disk, written >>

\* A variant that uses try_send: a full channel loses the event
AggSend_with_try_send ==
    /\ aggPc = "sending"
    /\ archPc \in {"start", "draining", "writing"}
    /\ archiveQ' = try_send(archiveQ, ArchiveCap, pending[1]).q
    /\ pending' = << >>
    /\ aggPc' = "select"
    /\ UNCHANGED << iterOrder, parserVars, handlerVars, eventQ, enqueued, total_tokens,
                    requests, received, archived, written, taskVars >>

\* dashboard.rs 64: archive_tx.send(req_event).await completes, the receiver
\* being alive and the channel having room
AggSend ==
    /\ aggPc = "sending"
    /\ archPc \in {"start", "draining", "writing"}
    /\ Len(archiveQ) < ArchiveCap
    /\ archiveQ' = Append(archiveQ, pending[1])
    /\ pending' = << >>
    /\ aggPc' = "select"
    /\ UNCHANGED << iterOrder, parserVars, handlerVars, eventQ, enqueued, total_tokens,
                    requests, received, archived, written, taskVars >>

\* dashboard.rs 64: the receiver is gone (archive_writer has returned), send
\* fails at once and `let _ =` discards the error and the event with it
AggSendClosed ==
    /\ aggPc = "sending"
    /\ archPc = "ended"
    /\ pending' = << >>
    /\ aggPc' = "select"
    /\ UNCHANGED << iterOrder, parserVars, handlerVars, eventQ, enqueued, total_tokens,
                    requests, archiveQ, received, archived, written, taskVars >>

\* A variant in which the quit input is read while the send is pending
DashExit_while_sending ==
    /\ aggPc \in {"select", "sending"}
    /\ aggPc' = "exited"
    /\ result' \in {"ok", "err"}
    /\ UNCHANGED << iterOrder, parserVars, handlerVars, eventQ, enqueued, pending, total_tokens,
                    requests, archiveQ, received, archived, proxyPc, archPc, max_log_entries,
                    enabled, encoding, disk, written >>

\* dashboard.rs 54, 68-93: a terminal call fails (`?`), or the sleep arm
\* reads q, Esc or Ctrl-C and breaks; Dashboard::run returns
DashExit ==
    /\ aggPc = "select"
    /\ aggPc' = "exited"
    /\ result' \in {"ok", "err"}
    /\ UNCHANGED << iterOrder, parserVars, handlerVars, eventQ, enqueued, pending, total_tokens,
                    requests, archiveQ, received, archived, proxyPc, archPc, max_log_entries,
                    enabled, encoding, disk, written >>

\* main.rs 91-94: abort both tasks, return the dashboard's result
RunCleanup ==
    /\ aggPc = "exited"
    /\ aggPc' = "returned"
    /\ proxyPc' = IF proxyPc = "failed" THEN proxyPc ELSE "aborted"
    /\ archPc' = IF archPc = "ended" THEN archPc ELSE "aborted"
    /\ UNCHANGED << iterOrder, parserVars, handlerVars, eventQ, enqueued, pending, total_tokens,
                    requests, archiveQ, received, archived, result, max_log_entries, enabled,
                    encoding, disk, written >>

\* proxy.rs 46: TcpListener::bind(&addr).await?; main.rs 72-76: the task
\* that ran the proxy logs the error and ends
ProxyBind ==
    /\ proxyPc = "binding"
    /\ proxyPc' \in {"listening", "failed"}
    /\ UNCHANGED << iterOrder, parserVars, handlerVars, eventQ, enqueued, aggPc, pending,
                    total_tokens, requests, archiveQ, received, archived, archPc, result,
                    max_log_entries, enabled, encoding, disk, written >>

\* archive.rs 14-18: persistence disabled, the task only drains the channel
ArchiveStartDisabled ==
    /\ archPc = "start"
    /\ ~enabled
    /\ archPc' = "draining"
    /\ UNCHANGED << iterOrder, parserVars, handlerVars, eventQ, enqueued, aggPc, pending,
                    total_tokens, requests, archiveQ, received, archived, proxyPc, result,
                    max_log_entries, enabled, encoding, disk, written >>

\* archive.rs 21: create_dir_all succeeds, or fails and the task returns the
\* error, dropping the receiver and what the channel still holds
ArchiveStartEnabled ==
    /\ archPc = "start"
    /\ enabled
    /\ \/ /\ archPc' = "writing"
          /\ UNCHANGED archiveQ
       \/ /\ archPc' = "ended"
          /\ archiveQ' = << >>
    /\ UNCHANGED << iterOrder, parserVars, handlerVars, eventQ, enqueued, aggPc, pending,
                    total_tokens, requests, received, archived, proxyPc, result,
                    max_log_entries, enabled, encoding, disk, written >>

\* archive.rs 34-62: what save_prompt can return, fs::write failing or not
save_prompt(d) == IF d = "faulty" THEN {"ok", "err"} ELSE {"ok"}

\* A variant in which only an enabled archive writer receives
ArchiveRecv_only_when_enabled ==
    /\ archPc = "writing"
    /\ archiveQ # << >>
    /\ archived' = Append(archived, Head(archiveQ))
    /\ archiveQ' = Tail(archiveQ)
    /\ (IF archPc = "writing"
        THEN \E outcome \in save_prompt(disk) : written' = Append(written, outcome)
        ELSE written' = written)
    /\ UNCHANGED << iterOrder, parserVars, handlerVars, eventQ, enqueued, aggPc, pending,
                    total_tokens, requests, received, taskVars >>

\* A variant that takes the newest event of the channel
ArchiveRecv_takes_newest ==
    /\ archPc \in {"draining", "writing"}
    /\ archiveQ # << >>
    /\ archived' = Append(archived, archiveQ[Len(archiveQ)])
    /\ archiveQ' = SubSeq(archiveQ, 1, Len(archiveQ) - 1)
    /\ (IF archPc = "writing"
        THEN \E outcome \in save_prompt(disk) : written' = Append(written, outcome)
        ELSE written' = written)
    /\ UNCHANGED << iterOrder, parserVars, handlerVars, eventQ, enqueued, aggPc, pending,
                    total_tokens, requests, received, taskVars >>

\* A variant that reads the head of the channel without removing it
ArchiveRecv_leaves_head ==
    /\ archPc \in {"draining", "writing"}
    /\ archiveQ # << >>
    /\ archived' = Append(archived, Head(archiveQ))
    /\ Len(archived) < MaxLogEntries + 1
    /\ (IF archPc = "writing"
        THEN \E outcome \in save_prompt(disk) : written' = Append(written, outcome)
        ELSE written' = written)
    /\ UNCHANGED << iterOrder, parserVars, handlerVars, eventQ, enqueued, aggPc, pending,
                    total_tokens, requests, archiveQ, received, taskVars >>

\* A variant that returns the error of save_prompt (`?`), which ends the
\* task and drops the receiver
ArchiveRecv_returns_save_error ==
    /\ archPc \in {"draining", "writing"}
    /\ archiveQ # << >>
    /\ archived' = Append(archived, Head(archiveQ))
    /\ \E outcome \in (IF archPc = "writing" THEN save_prompt(disk) ELSE {"none"}) :
          /\ written' = (IF outcome = "none" THEN written ELSE Append(written, outcome))
          /\ archiveQ' = (IF outcome = "err" THEN << >> ELSE Tail(archiveQ))
          /\ archPc' = (IF outcome = "err" THEN "ended" ELSE archPc)
    /\ UNCHANGED << iterOrder, parserVars, handlerVars, eventQ, enqueued, aggPc, pending,
                    total_tokens, requests, received, proxyPc, result, max_log_entries, enabled,
                    encoding, disk >>

\* archive.rs 16, 25-29: rx.recv() yields an event; the enabled writer calls
\* save_prompt on it and only logs its error
ArchiveRecv ==
    /\ archPc \in {"draining", "writing"}
    /\ archiveQ # << >>
    /\ archived' = Append(archived, Head(archiveQ))
    /\ archiveQ' = Tail(archiveQ)
    /\ (IF archPc = "writing"
        THEN \E outcome \in save_prompt(disk) : written' = Append(written, outcome)
        ELSE written' = written)
    /\ UNCHANGED << iterOrder, parserVars, handlerVars, eventQ, enqueued, aggPc, pending,
                    total_tokens, requests, received, taskVars >>

-----------------------------------------------------------------------------
(* Specifications *)

\* no call of the parser is under study
NoInput == { << "", Null >> }

\* a call of the parser on one of the inputs << provider, value >>
InitParser(inputs) ==
    /\ \E input \in inputs : vendor = input[1] /\ doc = input[2]
    /\ out = NoOutput

\* main.rs 62-86: the state when run_server has spawned its tasks, for a
\* configuration and a position of the proxy and archive tasks
InitServer(orders, capacities, switches, proxy, archive, encodings, inputs) ==
    /\ iterOrder \in orders
    /\ encoding \in encodings
    /\ InitParser(inputs)
    /\ max_log_entries \in capacities
    /\ enabled \in switches
    /\ proxyPc = proxy
    /\ archPc = archive
    /\ result = "running"
    /\ received = << >>
    /\ archived = << >>
    /\ pc = [h \in Handlers |-> "idle"]
    /\ req = [h \in Handlers |-> NoRequest]
    /\ reqId = [h \in Handlers |-> << h, 0 >>]
    /\ provider = [h \in Handlers |-> NoProvider]
    /\ bodyRead = [h \in Handlers |-> "no"]
    /\ tele = [h \in Handlers |-> "none"]
    /\ upSent = [h \in Handlers |-> << >>]
    /\ upResp = [h \in Handlers |-> NoUpstream]
    /\ resp = [h \in Handlers |-> NoResponse]
    /\ accepted = 0
    /\ eventQ = << >>
    /\ enqueued = << >>
    /\ aggPc = "select"
    /\ pending = << >>
    /\ total_tokens = 0
    /\ requests = << >>
    /\ archiveQ = << >>

\* the archive directory and what has been written to it
InitDisk(disks) ==
    /\ disk \in disks
    /\ written = << >>

\* the same with an archive directory that takes every write
InitState(orders, capacities, switches, proxy, archive, encodings, inputs) ==
    /\ InitServer(orders, capacities, switches, proxy, archive, encodings, inputs)
    /\ InitDisk({"sound"})

\* The listener is bound, the archive directory exists, the encoding loads
InitWith(orders) ==
    InitState(orders, {MaxLogEntries}, {TRUE}, "listening", "writing", {"loads"}, NoInput)

\* The pipeline: concurrent handlers, the dashboard and the archive writer
Init == InitWith({ConfigOrder})

Next ==
    \/ \E h \in Handlers : Accept(h, PipeRequests, MaxRequests)
    \/ \E h \in Handlers : Route(h)
    \/ \E h \in Handlers : ReadBody(h)
    \/ \E h \in Handlers : ParseAndPublish(h)
    \/ \E h \in Handlers : Forward(h)
    \/ \E h \in Handlers : UpstreamReply(h, PipeUpstreams)
    \/ \E h \in Handlers : Relay(h)
    \/ AggRecv
    \/ AggSend
    \/ ArchiveRecv

Spec == Init /\ [][Next]_vars

\* Forwarding: one connection, every method and header list, every outcome
\* of the upstream call
InitFwd == InitWith({ConfigOrder})

NextFwd ==
    \/ Accept(1, FwdRequests, 1)
    \/ Route(1)
    \/ ReadBody(1)
    \/ ParseAndPublish(1)
    \/ Forward(1)
    \/ UpstreamReply(1, FwdUpstreams(req[1]))
    \/ Relay(1)

SpecFwd == InitFwd /\ [][NextFwd]_vars

\* Routing: one connection, every path, every iteration order of the map
InitRoute == InitWith(IterOrders)

NextRoute ==
    \/ Accept(1, RouteRequests, 1)
    \/ Route(1)

SpecRoute == InitRoute /\ [][NextRoute]_vars

\* Telemetry of one connection: routed and unrouted paths, every kind of
\* body, an event channel nobody drains, both outcomes of the upstream call
TeleRequests ==
    { Request("POST", p, PipeHeaders, b) :
        p \in {PathMessages, PathUnknown},
        b \in {BodyEmpty, BodyBad, BodyA, BodyB} }

InitTele == InitWith({ConfigOrder})

NextTele ==
    \/ Accept(1, TeleRequests, MaxRequests)
    \/ Route(1)
    \/ ReadBody(1)
    \/ ParseAndPublish(1)
    \/ Forward(1)
    \/ UpstreamReply(1, PipeUpstreams)
    \/ Relay(1)

SpecTele == InitTele /\ [][NextTele]_vars

\* The tokenizer: one connection, every kind of body, in a process where
\* cl100k_base() loads and in one where it fails
InitTok ==
    InitState({ConfigOrder}, {MaxLogEntries}, {TRUE}, "listening", "writing",
              {"loads", "fails"}, NoInput)

NextTok ==
    \/ Accept(1, TeleRequests, MaxRequests)
    \/ Route(1)
    \/ ReadBody(1)
    \/ ParseAndPublish(1)
    \/ Forward(1)
    \/ UpstreamReply(1, PipeUpstreams)
    \/ Relay(1)

SpecTok == InitTok /\ [][NextTok]_vars

\* extract_text_from_value applied to every value of ExtractValues
InitExtract ==
    /\ InitState({ConfigOrder}, {MaxLogEntries}, {TRUE}, "listening", "writing",
                 {"loads"}, { << "", v >> : v \in ExtractValues })

NextExtract == Extract

SpecExtract == InitExtract /\ [][NextExtract]_vars

\* parse_request applied, for every provider, to every body of ParseInputs
InitParse ==
    /\ InitState({ConfigOrder}, {MaxLogEntries}, {TRUE}, "listening", "writing",
                 {"loads", "fails"}, ParseInputs)

NextParse == Normalize

SpecParse == InitParse /\ [][NextParse]_vars

\* run_server from the spawning of its tasks to its return: one connection
\* that produces events, the dashboard with every configured capacity, the
\* archive writer enabled or not
RunRequests == { Request("POST", PathMessages, PipeHeaders, b) : b \in {BodyA, BodyB} }
RunUpstreams == { UpstreamOk(200, PipeRespHeaders, BodyA) }

InitRun ==
    InitState({ConfigOrder}, 0..MaxLogEntries, BOOLEAN, "binding", "start", {"loads"}, NoInput)

NextRun ==
    \/ ProxyBind
    \/ Accept(1, RunRequests, MaxLogEntries + 1)
    \/ Route(1)
    \/ ReadBody(1)
    \/ ParseAndPublish(1)
    \/ Forward(1)
    \/ UpstreamReply(1, RunUpstreams)
    \/ Relay(1)
    \/ AggRecv
    \/ AggSend
    \/ AggSendClosed
    \/ DashExit
    \/ RunCleanup
    \/ ArchiveStartDisabled
    \/ ArchiveStartEnabled
    \/ ArchiveRecv

SpecRun == InitRun /\ [][NextRun]_vars

\* The counter at the end of its range: one connection whose bodies are
\* short or long, the dashboard and a draining archive writer
SumRequests == { Request("POST", PathMessages, PipeHeaders, b) : b \in {BodyB, BodyLong} }

InitSum ==
    InitState({ConfigOrder}, {MaxLogEntries}, {FALSE}, "listening", "draining", {"loads"},
              NoInput)

NextSum ==
    \/ Accept(1, SumRequests, MaxRequests)
    \/ Route(1)
    \/ ReadBody(1)
    \/ ParseAndPublish(1)
    \/ Forward(1)
    \/ UpstreamReply(1, RunUpstreams)
    \/ Relay(1)
    \/ AggRecv
    \/ AggSend
    \/ ArchiveRecv

SpecSum == InitSum /\ [][NextSum]_vars

\* Back-pressure on the dashboard: one connection producing enough events
\* to fill the archive channel and have one more wait, an archive writer
\* that may be slow to start and to receive, the quit input at any time
BackRequests == { Request("POST", PathMessages, PipeHeaders, BodyA) }

InitBack ==
    InitState({ConfigOrder}, {MaxLogEntries}, {FALSE}, "listening", "start", {"loads"},
              NoInput)

NextBack ==
    \/ Accept(1, BackRequests, ArchiveCap + 2)
    \/ Route(1)
    \/ ReadBody(1)
    \/ ParseAndPublish(1)
    \/ Forward(1)
    \/ UpstreamReply(1, RunUpstreams)
    \/ Relay(1)
    \/ AggRecv
    \/ AggSend
    \/ DashExit
    \/ ArchiveStartDisabled
    \/ ArchiveRecv

SpecBack == InitBack /\ [][NextBack]_vars

\* Persistence on a directory whose writes may fail: one connection
\* producing events, the dashboard with its quit input, the archive writer
SaveRequests == { Request("POST", PathMessages, PipeHeaders, b) : b \in {BodyA, BodyB} }

InitSave ==
    /\ InitServer({ConfigOrder}, {MaxLogEntries}, {TRUE}, "listening", "start", {"loads"},
                  NoInput)
    /\ InitDisk({"sound", "faulty"})

NextSave ==
    \/ Accept(1, SaveRequests, MaxLogEntries + 1)
    \/ Route(1)
    \/ ReadBody(1)
    \/ ParseAndPublish(1)
    \/ Forward(1)
    \/ UpstreamReply(1, RunUpstreams)
    \/ Relay(1)
    \/ AggRecv
    \/ AggSend
    \/ AggSendClosed
    \/ DashExit
    \/ ArchiveStartEnabled
    \/ ArchiveRecv

SpecSave == InitSave /\ [][NextSave]_vars

\* The server at work with persistence disabled. The tokio runtime polls
\* every spawned task that is ready, so the archive writer's start and
\* receive, and the dashboard's send once the channel has room, are taken
\* when they stay possible
InitDrain ==
    InitState({ConfigOrder}, {MaxLogEntries}, {FALSE}, "listening", "start", {"loads"}, NoInput)

NextDrain ==
    \/ Accept(1, RunRequests, MaxLogEntries + 1)
    \/ Route(1)
    \/ ReadBody(1)
    \/ ParseAndPublish(1)
    \/ Forward(1)
    \/ UpstreamReply(1, RunUpstreams)
    \/ Relay(1)
    \/ AggRecv
    \/ AggSend
    \/ ArchiveStartDisabled
    \/ ArchiveRecv

SpecDrain ==
    /\ InitDrain
    /\ [][NextDrain]_vars
    /\ WF_vars(ArchiveStartDisabled)
    /\ WF_vars(ArchiveRecv)
    /\ WF_vars(AggSend)

-----------------------------------------------------------------------------
(* Properties *)

\* handle_request has passed detect_provider for the request of handler h
Routed(h) == pc[h] \in {"read", "parse", "forward", "await", "relay", "done"}

NoPatternIn(path) == \A p \in Providers : ~Contains(path, path_pattern[p])

\* the ids of the events in the pipeline
InPipeline ==
    { eventQ[i].id : i \in DOMAIN eventQ }
    \cup { pending[i].id : i \in DOMAIN pending }
    \cup { archiveQ[i].id : i \in DOMAIN archiveQ }

(* C1: publishing an event never makes a request handler wait. A handler at
   the publish step can always take it, whatever the state of the event
   channel and of the other tasks; the step either enqueues the event (the
   channel had room) or drops it (the channel was at capacity) and leaves the
   handler at the forwarding step; a dropped event is never put in the
   pipeline later. *)
C1_PublishNeverWaits ==
    /\ [](\A h \in Handlers : pc[h] = "parse" => ENABLED ParseAndPublish(h))
    /\ [][\A h \in Handlers :
            (pc[h] = "parse" /\ pc'[h] # "parse") =>
                /\ pc'[h] = "forward"
                /\ \/ /\ tele'[h] = "enqueued"
                      /\ Len(eventQ) < PrimaryCap
                      /\ eventQ' = Append(eventQ, eventQ'[Len(eventQ')])
                      /\ eventQ'[Len(eventQ')].id = reqId[h]
                   \/ /\ tele'[h] = "dropped"
                      /\ Len(eventQ) = PrimaryCap
                      /\ eventQ' = eventQ
                   \/ /\ tele'[h] \in {"empty", "parse_failed"}
                      /\ eventQ' = eventQ]_vars
    /\ [](\A h \in Handlers : tele[h] = "dropped" => reqId[h] \notin InPipeline)

\* a handler has dropped its event on the full channel and gone on to
\* forward while another handler, whose event was enqueued, is in flight
C1_Witness ==
    \E h1, h2 \in Handlers :
        /\ h1 # h2
        /\ pc[h1] = "forward"
        /\ tele[h1] = "dropped"
        /\ Len(eventQ) = PrimaryCap
        /\ tele[h2] = "enqueued"
        /\ pc[h2] \in {"forward", "await", "relay"}

SameButBody(r1, r2) ==
    /\ r1.method = r2.method
    /\ r1.path = r2.path
    /\ r1.wire = r2.wire

SansBody(sent) ==
    [i \in DOMAIN sent |->
        [method |-> sent[i].method, url |-> sent[i].url, headers |-> sent[i].headers]]

(* C2: telemetry does not influence forwarding. Two finished requests that
   agree in method, path and headers and in the outcome of the body read
   were sent upstream identically, each with its own body, and, when the
   upstream behaved the same for both, got the same response, whatever the
   telemetry step did with each (parse failure, event enqueued, event
   dropped). *)
C2_TelemetryDoesNotInfluenceForwarding ==
    \A h1, h2 \in Handlers :
        ( /\ pc[h1] = "done"
          /\ pc[h2] = "done"
          /\ SameButBody(req[h1], req[h2])
          /\ bodyRead[h1] = bodyRead[h2] )
        => /\ SansBody(upSent[h1]) = SansBody(upSent[h2])
           /\ \A i \in DOMAIN upSent[h1] : upSent[h1][i].body = req[h1].body
           /\ upResp[h1] = upResp[h2] => resp[h1] = resp[h2]

\* the same request finished twice against the same upstream behaviour,
\* once with its event dropped and once with its event enqueued
C2_Witness ==
    \E h1, h2 \in Handlers :
        /\ pc[h1] = "done" /\ pc[h2] = "done"
        /\ req[h1] = req[h2]
        /\ tele[h1] = "dropped" /\ tele[h2] = "enqueued"
        /\ upResp[h1].kind = "ok" /\ upResp[h1] = upResp[h2]
        /\ resp[h1].status = 200

(* C3: no hop-by-hop header, compared without regard to case, is in an
   upstream request or in a response returned to the client. *)
C3_NoHopByHopHeaderCopied ==
    \A h \in Handlers :
        /\ \A i \in DOMAIN upSent[h] :
              \A k \in DOMAIN upSent[h][i].headers :
                  ToLower(upSent[h][i].headers[k].name) \notin HopByHopNames
        /\ \A k \in DOMAIN resp[h].headers :
              ToLower(resp[h].headers[k].name) \notin HopByHopNames

\* a request and an upstream response that both carry Host twice, in two
\* spellings, have been forwarded and relayed
C3_Witness ==
    \E h \in Handlers :
        /\ pc[h] = "done"
        /\ resp[h].status = 200
        /\ req[h].wire = << H(<<"H","o","s","t">>, AsciiValue),
                            H(<<"h","o","s","t">>, AsciiValue) >>
        /\ upResp[h].wire = req[h].wire
        /\ Len(upSent[h]) = 1

(* C4: when no configured provider's pattern is contained in the request
   path, the request is answered 400 straight from routing: its body is never
   read, no event is published for it and no upstream request is sent. *)
C4_UnroutedRequestIsRejected ==
    \A h \in Handlers :
        (pc[h] # "idle" /\ NoPatternIn(req[h].path))
        => /\ pc[h] \in {"route", "done"}
           /\ bodyRead[h] = "no"
           /\ tele[h] = "none"
           /\ reqId[h] \notin InPipeline
           /\ upSent[h] = << >>
           /\ upResp[h] = NoUpstream
           /\ pc[h] = "done" => resp[h].status = 400

\* a request whose path matches no provider has been answered
C4_Witness ==
    \E h \in Handlers :
        /\ pc[h] = "done"
        /\ NoPatternIn(req[h].path)
        /\ req[h].body # BodyEmpty
        /\ resp[h] = Diagnostic(400, "Unknown provider")

(* C5: detect_provider returns a provider only if that provider's pattern is
   a substring of the path as given (no case folding), and returns no match
   exactly when no configured pattern is a substring of the path. *)
C5_DetectProviderMatchesBySubstring ==
    \A h \in Handlers :
        Routed(h) =>
            /\ provider[h] # NoProvider
                  => /\ provider[h] \in Providers
                     /\ Contains(req[h].path, path_pattern[provider[h]])
            /\ provider[h] = NoProvider <=> NoPatternIn(req[h].path)

\* a path that contains two patterns has been routed to one of them
C5_Witness ==
    \E h \in Handlers :
        /\ Routed(h)
        /\ req[h].path = <<"/", "m", "g">>
        /\ provider[h] = "gemini"

(* C6: when the patterns of several providers are contained in the path,
   detect_provider returns the one that comes first in configuration order. *)
C6_FirstConfiguredProviderWins ==
    \A h \in Handlers :
        Routed(h) => provider[h] = detect_provider(req[h].path, ConfigOrder)

(* C7: when the upstream call and the read of its body succeed, the response
   has the upstream status and body unchanged and exactly the upstream
   headers that are neither hop-by-hop nor content-encoding. *)
C7_ResponseRelayed ==
    \A h \in Handlers :
        (pc[h] = "done" /\ upResp[h].kind = "ok")
        => /\ resp[h].status = upResp[h].status
           /\ resp[h].body = upResp[h].body
           /\ resp[h].headers =
                 SelectSeq(upResp[h].headers,
                     LAMBDA hd : /\ ToLower(hd.name) \notin HopByHopNames
                                 /\ ToLower(hd.name) # ContentEncoding)

(* C8: every header of the inbound request whose name is not hop-by-hop is
   copied into the upstream request with the same name and value, whatever
   its value. *)
C8_RequestHeadersCopied ==
    \A h \in Handlers :
        \A i \in DOMAIN upSent[h] :
            upSent[h][i].headers =
                SelectSeq(req[h].headers,
                    LAMBDA hd : ToLower(hd.name) \notin HopByHopNames)

(* C9: the upstream request is sent with the method of the inbound request,
   for every method, and with the buffered body bytes unchanged. *)
C9_MethodAndBodyPreserved ==
    \A h \in Handlers :
        \A i \in DOMAIN upSent[h] :
            /\ upSent[h][i].method = req[h].method
            /\ upSent[h][i].body = req[h].body

(* C10: if sending the upstream request or reading the upstream response
   body fails, the client receives a 502, and at most one upstream request
   is issued per inbound request. *)
C10_UpstreamFailureIs502WithoutRetry ==
    \A h \in Handlers :
        /\ Len(upSent[h]) <= 1
        /\ (pc[h] = "done" /\ upResp[h].kind \in {"send_err", "read_err"})
              => /\ resp[h].status = 502
                 /\ Len(upSent[h]) = 1

\* a request whose upstream send failed has been answered
C10_Witness ==
    \E h \in Handlers :
        /\ pc[h] = "done"
        /\ upResp[h].kind = "send_err"
        /\ resp[h].status = 502
        /\ Len(upSent[h]) = 1

\* try_send has been called for the request of handler h
Attempted(h) == tele[h] \in {"enqueued", "dropped"}

\* the request of handler h is routed, its body is read, non-empty and parses
Publishable(h) ==
    /\ provider[h] # NoProvider
    /\ bodyRead[h] = "ok"
    /\ req[h].body # BodyEmpty
    /\ parse_request(req[h].body, req[h].path, provider[h], reqId[h]).ok

\* handle_request is past the telemetry step for the request of handler h
PastTelemetry(h) == bodyRead[h] = "ok" /\ pc[h] \in {"forward", "await", "relay", "done"}

Occurrences(q, id) == Cardinality({ i \in DOMAIN q : q[i].id = id })

(* C11: each inbound request causes at most one publish attempt on the event
   channel: exactly one when it is routed and its body is read, non-empty and
   parses, none when it is unrouted, the body read fails, the body is empty
   or parsing fails. The attempt is the single step from "parse" to "forward";
   it puts at most one event of the request on the channel, and no later step
   of the same request attempts again. (Checked where nothing drains the
   channel, so an enqueued event is counted on it.) *)
C11_AtMostOnePublishAttempt ==
    /\ [](\A h \in Handlers :
            /\ Attempted(h) => Publishable(h)
            /\ (Publishable(h) /\ PastTelemetry(h)) => Attempted(h)
            /\ pc[h] \in {"route", "read", "parse"} => ~Attempted(h)
            /\ Occurrences(eventQ, reqId[h]) = IF tele[h] = "enqueued" THEN 1 ELSE 0)
    /\ [][\A h \in Handlers :
            /\ (tele'[h] # tele[h] /\ tele'[h] \in {"enqueued", "dropped"}) =>
                   (tele[h] = "none" /\ pc[h] = "parse" /\ pc'[h] = "forward")
            /\ (Attempted(h) /\ reqId'[h] = reqId[h]) =>
                   /\ tele'[h] = tele[h]
                   /\ Occurrences(eventQ', reqId[h]) = Occurrences(eventQ, reqId[h])]_vars

\* a second request, whose body does not parse, has been answered with no
\* publish attempt while the event of the first is on the channel
C11_Witness ==
    /\ pc[1] = "done"
    /\ reqId[1][2] = 2
    /\ tele[1] = "parse_failed"
    /\ resp[1].status = 200
    /\ Len(eventQ) = 1
    /\ eventQ[1].id = << 1, 1 >>

(* C12: the event of a request that parses is built from the buffered body
   and published after the body has been read and before the upstream
   request is sent: the publishing step finds the body read and no upstream
   request sent, and once an upstream request has been sent the attempt has
   been made. The outcome of the publish stays what it was whether the
   forwarding then succeeds or ends in a 502. *)
C12_PublishedBeforeForwarding ==
    /\ [][\A h \in Handlers :
            (tele'[h] # tele[h] /\ tele'[h] \in {"enqueued", "dropped"}) =>
                /\ bodyRead[h] = "ok"
                /\ upSent[h] = << >> /\ upSent'[h] = << >>
                /\ resp'[h] = NoResponse
                /\ tele'[h] = "enqueued" =>
                       eventQ'[Len(eventQ')] =
                           parse_request(req[h].body, req[h].path, provider[h],
                                         reqId[h]).event]_vars
    /\ [](\A h \in Handlers :
            (Publishable(h) /\ (upSent[h] # << >> \/ resp[h] # NoResponse))
                => Attempted(h))
    /\ [][\A h \in Handlers :
            (pc[h] \in {"forward", "await", "relay"} /\ tele[h] = "enqueued") =>
                (tele'[h] = "enqueued" /\
                 Occurrences(eventQ', reqId[h]) = Occurrences(eventQ, reqId[h]))]_vars

\* the upstream send has failed, the client has its 502, and the event of
\* the request is on the channel
C12_Witness ==
    \E h \in Handlers :
        /\ pc[h] = "done"
        /\ upResp[h].kind = "send_err"
        /\ resp[h].status = 502
        /\ tele[h] = "enqueued"
        /\ Occurrences(eventQ, reqId[h]) = 1


RECURSIVE SumTokens(_)
SumTokens(events) ==
    IF events = << >> THEN 0 ELSE events[1].tokens + SumTokens(Tail(events))

(* C13: after the dashboard has received any sequence of events, its
   total_tokens is the sum of their token counts; total_tokens never
   decreases, and it changes only in the step that receives an event, by the
   token count of that event. *)
C13_TotalIsSumOfReceived ==
    /\ [](total_tokens = SumTokens(received))
    /\ [][/\ total_tokens' >= total_tokens
          /\ total_tokens' # total_tokens =>
                /\ eventQ # << >>
                /\ received' = Append(received, Head(eventQ))
                /\ total_tokens' = total_tokens + Head(eventQ).tokens]_vars

\* three events with different token counts have been received
C13_Witness ==
    /\ Len(received) = 3
    /\ received[1].tokens = 1
    /\ received[2].tokens = 2
    /\ received[3].tokens = 2
    /\ total_tokens = 5

\* the summaries of the n most recently received events, most recent first
MostRecent(n) == [i \in 1..n |-> RequestInfo(received[Len(received) + 1 - i])]

MinOf(a, b) == IF a < b THEN a ELSE b

(* C14: after any sequence of N received events and capacity C
   (max_log_entries), Dashboard.requests has length min(N, C) and holds the
   summaries of the min(N, C) most recently received events, most recent
   first; a step that changes it inserts one summary at the front and
   removes at most the entry at the back. *)
C14_RingHoldsMostRecent ==
    /\ [](/\ Len(requests) = MinOf(Len(received), max_log_entries)
          /\ requests = MostRecent(MinOf(Len(received), max_log_entries)))
    /\ [][requests' # requests =>
            /\ eventQ # << >>
            /\ \E k \in {Len(requests), Len(requests) + 1} :
                   requests' = SubSeq(<< RequestInfo(Head(eventQ)) >> \o requests, 1, k)]_vars

\* with capacity 2 a third event has been received and the summary of the
\* first is gone
C14_Witness ==
    /\ max_log_entries = 2
    /\ Len(received) = 3
    /\ requests = << RequestInfo(received[3]), RequestInfo(received[2]) >>
    /\ \A i \in DOMAIN requests : requests[i].id # received[1].id

(* C15 as stated: once an event has been received, the front of
   Dashboard.requests is the summary of the most recently received event, for
   every configured capacity. *)
C15_FrontIsMostRecent ==
    received # << >> =>
        /\ requests # << >>
        /\ requests[1] = RequestInfo(received[Len(received)])

(* C15 amended: once an event has been received, the front of
   Dashboard.requests is the summary of the most recently received event, for
   every configured capacity of at least one; with max_log_entries = 0 the
   summary is pushed and popped at once and the sequence stays empty. *)
C15_FrontIsMostRecentWhenCapacityPositive ==
    /\ (received # << >> /\ max_log_entries >= 1) =>
            /\ requests # << >>
            /\ requests[1] = RequestInfo(received[Len(received)])
    /\ max_log_entries = 0 => requests = << >>

\* with capacity one a second event has been received
C15_Witness ==
    /\ max_log_entries = 1
    /\ Len(received) = 2
    /\ requests = << RequestInfo(received[2]) >>


(* C16 as stated: the dashboard relays every event it receives to the
   archive channel, whatever the state of the archive writer: the step that
   ends the send of a received event appends that event to the channel. *)
C16_EveryReceivedEventRelayed ==
    [][(aggPc = "sending" /\ aggPc' # "sending") =>
            archiveQ' = Append(archiveQ, pending[1])]_vars

(* C16 amended: while the archive writer holds its receiver (it has not
   returned on a create_dir_all failure), every event the dashboard has
   received has been put on the archive channel exactly once or is the one
   being sent: the events received by the archive writer, those on the
   channel and the one being sent are the received events, in order. Once
   the archive writer has returned, the send fails at once and the event is
   discarded without being enqueued. Nothing but the dashboard's send adds to
   the channel. *)
C16_RelayedOnceWhileReceiverOpen ==
    /\ [](/\ aggPc = "sending" => pending = << received[Len(received)] >>
          /\ aggPc # "sending" => pending = << >>
          /\ archPc # "ended" => archived \o archiveQ \o pending = received)
    /\ [][(aggPc = "sending" /\ aggPc' # "sending") =>
            IF archPc = "ended"
            THEN archiveQ' = archiveQ /\ archiveQ = << >>
            ELSE archiveQ' = Append(archiveQ, pending[1])]_vars
    /\ [][archiveQ' # archiveQ =>
            \/ aggPc = "sending" /\ archiveQ' = Append(archiveQ, pending[1])
            \/ archiveQ' = Tail(archiveQ)
            \/ archPc' = "ended" /\ archiveQ' = << >>]_vars

\* two events have been received and relayed; the archive writer has taken
\* the first and the second waits on the channel
C16_Witness ==
    /\ archPc = "writing"
    /\ aggPc = "select"
    /\ Len(received) = 2
    /\ archived = << received[1] >>
    /\ archiveQ = << received[2] >>


\* the ids an event can carry when one connection produces them
EventIds == { << 1, n >> : n \in 1..(MaxLogEntries + 1) }

OnArchiveChannel(id) == \E i \in DOMAIN archiveQ : archiveQ[i].id = id

(* C17: with persistence disabled the archive writer keeps receiving:
   every event put on the archive channel is eventually taken off it, a full
   channel eventually has room again, and a send the dashboard is waiting
   on eventually completes. *)
C17_DisabledWriterDrains ==
    /\ \A id \in EventIds : OnArchiveChannel(id) ~> ~OnArchiveChannel(id)
    /\ (Len(archiveQ) = ArchiveCap) ~> (Len(archiveQ) < ArchiveCap)
    /\ (aggPc = "sending") ~> (aggPc = "select")

\* persistence is disabled, the channel is full and the dashboard waits to
\* send one more event
C17_Witness ==
    /\ ~enabled
    /\ archPc = "draining"
    /\ Len(archiveQ) = ArchiveCap
    /\ aggPc = "sending"


\* the events of producer h in a sequence are in the order h enqueued them: a
\* connection handles its requests one after the other, so that order is the
\* order of their serial numbers
InProducerOrder(events, h) ==
    \A i, j \in DOMAIN events :
        (i < j /\ events[i].id[1] = h /\ events[j].id[1] = h)
            => events[i].id[2] < events[j].id[2]

(* C18: events are delivered in the FIFO order of the channels. The
   dashboard takes the head of the event channel, so the events of one
   producer are received, and wait on the channel, in the order that producer
   enqueued them; the archive writer takes the head of the archive channel,
   so what it has received is a prefix of what the dashboard has received,
   in the same order. *)
C18_QueuesAreFifo ==
    /\ [](\A h \in Handlers : InProducerOrder(received \o eventQ, h))
    /\ [](/\ Len(archived) <= Len(received)
          /\ archived = SubSeq(received, 1, Len(archived)))
    /\ [][received' # received =>
            (eventQ # << >> /\ received' = Append(received, Head(eventQ))
                /\ eventQ' = Tail(eventQ))]_vars
    /\ [][archived' # archived =>
            (archiveQ # << >> /\ archived' = Append(archived, Head(archiveQ))
                /\ archiveQ' = Tail(archiveQ))]_vars

\* two events of the same producer have gone through both channels
C18_Witness ==
    /\ Len(received) = 2
    /\ received[1].id = << 1, 1 >>
    /\ received[2].id = << 1, 2 >>
    /\ archived = received


\* handle_request is at work on the request of handler h
Handling(h) == pc[h] \in {"route", "read", "parse", "forward", "await", "relay"}

(* C19: no per-request failure ends a connection handler without a response.
   handle_request returns exactly one response per request, in the step that
   ends it: 400 when no provider matches or the body read fails, 502 when the
   upstream send or the read of the upstream body fails, the upstream's own
   status otherwise. Until then no response exists, and from every position
   handle_request has a step to take (at "await", whatever the upstream
   does). *)
C19_EveryRequestGetsOneResponse ==
    /\ [](\A h \in Handlers :
            /\ Handling(h) => resp[h] = NoResponse
            /\ pc[h] = "done" =>
                 /\ resp[h] # NoResponse
                 /\ resp[h].status =
                       IF provider[h] = NoProvider \/ bodyRead[h] = "err" THEN 400
                       ELSE IF upResp[h].kind \in {"send_err", "read_err"} THEN 502
                       ELSE upResp[h].status
                 /\ upResp[h].kind = "none" =>
                       (provider[h] = NoProvider \/ bodyRead[h] = "err"))
    /\ [][\A h \in Handlers :
            resp'[h] # resp[h] =>
                \/ resp[h] = NoResponse /\ Handling(h) /\ pc'[h] = "done"
                \/ pc[h] = "done" /\ pc'[h] = "route" /\ resp'[h] = NoResponse]_vars
    /\ [](\A h \in Handlers :
            Handling(h) =>
                ENABLED (\/ Route(h) \/ ReadBody(h) \/ ParseAndPublish(h)
                         \/ Forward(h) \/ Relay(h)
                         \/ UpstreamReply(h, FwdUpstreams(req[h]))))

\* the read of the request body has failed and the client has its 400
C19_Witness ==
    \E h \in Handlers :
        /\ pc[h] = "done"
        /\ provider[h] # NoProvider
        /\ bodyRead[h] = "err"
        /\ resp[h] = Diagnostic(400, "Failed to read request body")
        /\ upSent[h] = << >>


(* C20: a listener bind failure is fatal: when the proxy cannot bind its
   address, the server run ends with a failure. (In the code nothing ends
   the run on a bind failure: the dashboard and the archive writer run on
   without a listener until the dashboard returns, and the run returns what
   the dashboard returned.) *)
C20_BindFailureIsFatal ==
    (proxyPc = "failed" /\ aggPc = "returned") => result = "err"

(* C21: a tokenizer construction failure is fatal at process startup: in a
   process whose tokenizer cannot be constructed no request is ever handled.
   (In the code ENCODING is built on the first count_tokens call, inside a
   request handler; a failure panics in the task of that connection and the
   process goes on accepting and forwarding requests.) *)
C21_TokenizerFailureStopsProcess ==
    encoding = "fails" => \A h \in Handlers : pc[h] = "idle"


\* the extractions of the elements of a sequence of values
ExtractionsOf(values) == [i \in DOMAIN values |-> extract_text_from_value(values[i])]

FieldValues(object) == [i \in DOMAIN object.items |-> object.items[i].v]

(* C22: extract_text_from_value follows the precedence text > content >
   everything. A string extracts to itself; an object with a string-valued
   `text` field extracts to that string whatever its other fields; otherwise
   an object with a `content` field extracts to the extraction of that field
   alone; otherwise to the newline-join of the non-empty extractions of all
   its values; numbers, booleans and null extract to the empty string. *)
C22_ExtractPrecedence ==
    out.kind = "text" =>
        /\ doc.t = "str" => out.text = doc.s
        /\ doc.t \in {"null", "bool", "num"} => out.text = << >>
        /\ (doc.t = "obj" /\ HasStr(doc, "text")) => out.text = Get(doc, "text").s
        /\ (doc.t = "obj" /\ ~HasStr(doc, "text") /\ Has(doc, "content")) =>
               out.text = extract_text_from_value(Get(doc, "content"))
        /\ (doc.t = "obj" /\ ~HasStr(doc, "text") /\ ~Has(doc, "content")) =>
               out.text = JoinLines(NonEmpty(ExtractionsOf(FieldValues(doc))))

\* an object whose `content` comes first in the map and whose `text` is a
\* string has been extracted to the text
C22_Witness ==
    /\ doc = Obj(<< F("content", Str(<< "b" >>)), F("text", Str(<< "a" >>)) >>)
    /\ out = Extracted(<< "a" >>)

Newlines(text) == Cardinality({ i \in DOMAIN text : text[i] = "\n" })

RECURSIVE SumNewlines(_)
SumNewlines(texts) ==
    IF texts = << >> THEN 0 ELSE Newlines(texts[1]) + SumNewlines(Tail(texts))

(* C23: for every array, extract_text_from_value returns the newline-join
   of the non-empty extractions of its elements in element order. Empty
   extractions are filtered before joining: the result has one separator
   fewer than there are non-empty extractions besides the newlines inside
   them, so no empty segment lies between separators, and an empty or
   all-empty array extracts to the empty string. *)
C23_ArrayJoinsNonEmpty ==
    (out.kind = "text" /\ doc.t = "arr") =>
        LET segments == NonEmpty(ExtractionsOf(doc.items))
        IN  /\ out.text = JoinLines(segments)
            /\ segments = << >> => out.text = << >>
            /\ segments # << >> =>
                  /\ Newlines(out.text) = SumNewlines(segments) + Len(segments) - 1
                  /\ out.text[1] = segments[1][1]
                  /\ out.text[Len(out.text)] # "\n"

\* an array of an all-empty array and an array of two strings
C23_Witness ==
    /\ doc = Arr(<< Arr(<< Str(<< >>), Null >>),
                    Arr(<< Str(<< "a" >>), Str(<< "b" >>) >>) >>)
    /\ out = Extracted(<< "a", "\n", "b" >>)



-----------------------------------------------------------------------------
(* The vendor parsers, checked under SpecParse *)

\* what the claims expect of the fields of a body
ModelOr(body, default) ==
    IF HasStr(body, "model") THEN Get(body, "model").s ELSE default

ElementsOf(body, field) ==
    IF Has(body, field) /\ Get(body, field).t = "arr"
    THEN Get(body, field).items
    ELSE << >>

SystemText(body, field) ==
    IF Has(body, field) THEN extract_text_from_value(Get(body, field)) ELSE << >>

RoleOr(element, default) ==
    IF HasStr(element, "role") THEN Get(element, "role").s ELSE default

ContentOf(element) ==
    IF Has(element, "content")
    THEN extract_text_from_value(Get(element, "content"))
    ELSE << >>

(* C24: for an Anthropic body the model is the `model` string, "unknown"
   without one; the messages are a leading system message exactly when the
   top-level `system` field exists and extracts to non-empty text, followed
   by one message per element of the `messages` array in payload order, its
   role the `role` string ("unknown" without one) and its content the
   extraction of `content` (empty when absent). *)
C24_AnthropicNormalization ==
    (vendor = "anthropic" /\ out.kind = "parsed") =>
        LET sys == SystemText(doc, "system")
            k == IF sys # << >> THEN 1 ELSE 0
            msgs == ElementsOf(doc, "messages")
        IN  /\ out.model = ModelOr(doc, << "unknown" >>)
            /\ Len(out.messages) = k + Len(msgs)
            /\ k = 1 => out.messages[1] = Message(<< "system" >>, sys)
            /\ \A i \in DOMAIN msgs :
                   /\ out.messages[k + i].role = RoleOr(msgs[i], << "unknown" >>)
                   /\ out.messages[k + i].content = ContentOf(msgs[i])

\* a body with a system prompt, a model and one user turn has been parsed
C24_Witness ==
    /\ vendor = "anthropic"
    /\ doc = Obj(<< F("model", Str(<< "m" >>)),
                    F("system", Str(<< "s" >>)),
                    F("messages", Arr(<< Obj(<< F("role", Str(<< "user" >>)),
                                                F("content", Str(<< "a" >>)) >>) >>)) >>)
    /\ out.model = << "m" >>
    /\ out.messages = << Message(<< "system" >>, << "s" >>),
                         Message(<< "user" >>, << "a" >>) >>


\* the string `text` fields of the parts, in order
PartTexts(parts) ==
    LET withText == SelectSeq(parts, LAMBDA part : HasStr(part, "text"))
    IN  [i \in DOMAIN withText |-> Get(withText[i], "text").s]

(* C25: for a Gemini body the messages are a leading system message when
   `systemInstruction` extracts to non-empty text, then one message per
   element of `contents` in order; its role is the `role` string ("user"
   without one); its content is the newline-join of the string `text` fields
   of its `parts` array, parts without one skipped, and the generic
   extraction of the whole element when `parts` is absent. The model is the
   `model` string, "gemini" without one. *)
C25_GeminiNormalization ==
    (vendor = "gemini" /\ out.kind = "parsed") =>
        LET sys == SystemText(doc, "systemInstruction")
            k == IF sys # << >> THEN 1 ELSE 0
            contents == ElementsOf(doc, "contents")
        IN  /\ out.model = ModelOr(doc, << "gemini" >>)
            /\ Len(out.messages) = k + Len(contents)
            /\ k = 1 => out.messages[1] = Message(<< "system" >>, sys)
            /\ \A i \in DOMAIN contents :
                   /\ out.messages[k + i].role = RoleOr(contents[i], << "user" >>)
                   /\ (Has(contents[i], "parts") /\ Get(contents[i], "parts").t = "arr")
                          => out.messages[k + i].content
                                 = JoinLines(PartTexts(ElementsOf(contents[i], "parts")))
                   /\ ~Has(contents[i], "parts")
                          => out.messages[k + i].content
                                 = extract_text_from_value(contents[i])

\* parts [{text:a},{text:b}] of a user turn have been joined to "a\nb"
C25_Witness ==
    /\ vendor = "gemini"
    /\ doc = Obj(<< F("contents",
                      Arr(<< Obj(<< F("role", Str(<< "user" >>)),
                                    F("parts", Arr(<< Part(Str(<< "a" >>)),
                                                      Part(Str(<< "b" >>)) >>)) >>) >>)) >>)
    /\ out.model = << "gemini" >>
    /\ out.messages = << Message(<< "user" >>, << "a", "\n", "b" >>) >>


(* C26: for an OpenAI body the normalized messages are exactly the elements
   of the `messages` array, one message per element in payload order: a
   system message stays at its place in the array, and a top-level `system`
   field adds no message. *)
C26_OpenAINoSystemHandling ==
    (vendor = "openai" /\ out.kind = "parsed") =>
        LET msgs == ElementsOf(doc, "messages")
        IN  /\ Len(out.messages) = Len(msgs)
            /\ \A i \in DOMAIN msgs :
                   out.messages[i] = Message(RoleOr(msgs[i], << "unknown" >>),
                                             ContentOf(msgs[i]))

\* a body with a top-level system field and a system message in second place
C26_Witness ==
    /\ vendor = "openai"
    /\ doc = Obj(<< F("system", Str(<< "s" >>)),
                    F("messages", Arr(<< Obj(<< F("role", Str(<< "user" >>)),
                                                F("content", Str(<< "a" >>)) >>),
                                         Obj(<< F("role", Str(<< "system" >>)),
                                                F("content", Str(<< "s" >>)) >>) >>)) >>)
    /\ out.messages = << Message(<< "user" >>, << "a" >>),
                         Message(<< "system" >>, << "s" >>) >>


KnownVendors == {"anthropic", "openai", "gemini"}

(* C27 as stated: a provider other than anthropic, openai and gemini gives a
   result with no normalized messages and the model "unknown", never an
   error. *)
C27_UnknownVendorGivesUnknownModel ==
    (vendor \notin KnownVendors /\ vendor # "" /\ out # NoOutput) =>
        /\ out.kind = "parsed"
        /\ out.messages = << >>
        /\ out.model = << "unknown" >>

(* C27 amended: for a provider other than anthropic, openai and gemini, a
   body that is not JSON gives the error of the JSON parser; a JSON body
   gives a result with no normalized messages whose model is the body's
   string `model` field, "unknown" when the field is absent or not a string
   (and the call panics when the tokenizer cannot be built). *)
C27_UnknownVendorFallback ==
    (vendor \notin KnownVendors /\ vendor # "" /\ out # NoOutput) =>
        IF doc = Malformed THEN out = Failed
        ELSE IF encoding = "fails" THEN out = Panicked
        ELSE /\ out.kind = "parsed"
             /\ out.messages = << >>
             /\ out.model = ModelOr(doc, << "unknown" >>)

\* a body with a model and a messages array has been parsed for another vendor
C27_Witness ==
    /\ vendor = OtherVendor
    /\ doc = Obj(<< F("model", Str(<< "m" >>)),
                    F("messages", Arr(<< Obj(<< F("role", Str(<< "user" >>)),
                                                F("content", Str(<< "a" >>)) >>) >>)) >>)
    /\ out.kind = "parsed"
    /\ out.model = << "m" >>
    /\ out.messages = << >>


(* C28: the cumulative token counter stays within its range without
   wrapping: the step that receives an event leaves the counter at the sum
   when the sum fits and at the maximum when it does not, so the counter
   never decreases. *)
C28_TotalSaturates ==
    [][/\ total_tokens' >= total_tokens
       /\ received' # received =>
              total_tokens' = MinOf(total_tokens + Head(eventQ).tokens, U64Max)]_vars


(* C29: when the read of the request body fails, handle_request answers 400
   in that step and the request is abandoned: no parse is attempted, no
   event for it is published and nothing is sent upstream. *)
C29_BodyReadFailureAbandons ==
    /\ [](\A h \in Handlers :
            bodyRead[h] = "err" =>
                /\ pc[h] = "done"
                /\ resp[h] = Diagnostic(400, "Failed to read request body")
                /\ tele[h] = "none"
                /\ upSent[h] = << >>
                /\ upResp[h] = NoUpstream
                /\ Occurrences(eventQ, reqId[h]) = 0)
    /\ [][\A h \in Handlers :
            (bodyRead'[h] = "err" /\ bodyRead[h] # "err") =>
                /\ pc[h] = "read"
                /\ eventQ' = eventQ]_vars

\* the body read of the second request of a connection has failed, the event
\* of its first request being in the channel
C29_Witness ==
    /\ bodyRead[1] = "err"
    /\ reqId[1] = << 1, 2 >>
    /\ resp[1].status = 400
    /\ Len(eventQ) = 1
    /\ eventQ[1].id = << 1, 1 >>


\* the send of Dashboard::run is pending on a full archive channel
SendBlocked ==
    /\ aggPc = "sending"
    /\ Len(archiveQ) = ArchiveCap
    /\ archPc # "ended"

(* C30: the dashboard handles one event at a time. The step that takes an
   event from the event channel updates total_tokens and the ring buffer and
   leaves the dashboard sending that event, the archive channel untouched.
   While the send is pending the dashboard takes no further event and
   handles no quit input; on a full archive channel it takes no step at all,
   and as soon as the channel has room (the archive writer has removed an
   item) the send can complete. *)
C30_OneEventAtATime ==
    /\ [](aggPc = "sending" =>
            /\ Len(pending) = 1
            /\ ~ENABLED AggRecv
            /\ ~ENABLED DashExit)
    /\ [](SendBlocked => ~ENABLED AggSend /\ ~ENABLED AggSendClosed)
    /\ []((aggPc = "sending" /\ Len(archiveQ) < ArchiveCap /\ archPc # "ended")
             => ENABLED AggSend)
    /\ [][received' # received =>
            /\ aggPc = "select"
            /\ aggPc' = "sending"
            /\ pending' = << Head(eventQ) >>
            /\ total_tokens' = total_tokens + Head(eventQ).tokens
            /\ requests' # requests \/ max_log_entries = 0
            /\ archiveQ' = archiveQ]_vars
    /\ [][(SendBlocked /\ aggPc' # aggPc) => FALSE]_vars

\* the send is pending on a full archive channel while a further event waits
\* on the event channel
C30_Witness ==
    /\ SendBlocked
    /\ eventQ # << >>
    /\ Len(received) = ArchiveCap + 1
    /\ Len(requests) = MinOf(ArchiveCap + 1, max_log_entries)


(* C31: a failed save_prompt stays in the archive writer. The enabled writer
   has called save_prompt on every event it has received, whatever the
   earlier calls returned; it goes on receiving as long as the channel holds
   an event; and the step in which save_prompt returns, with an error or
   not, takes the head of the archive channel and leaves the writer, the
   dashboard, the event channel and the handlers as they were. *)
C31_SaveFailureStaysInSink ==
    /\ [](archPc = "writing" => Len(written) = Len(archived))
    /\ []((archPc = "writing" /\ archiveQ # << >>) => ENABLED ArchiveRecv)
    /\ [][written' # written =>
            /\ archPc = "writing"
            /\ archPc' = "writing"
            /\ archived' = Append(archived, Head(archiveQ))
            /\ archiveQ' = Tail(archiveQ)
            /\ UNCHANGED << handlerVars, eventQ, enqueued, aggPc, pending, total_tokens,
                            requests, received, proxyPc, result >>]_vars

\* save_prompt has failed for the first event and succeeded for the second;
\* a third event waits on the archive channel
C31_Witness ==
    /\ archPc = "writing"
    /\ written = << "err", "ok" >>
    /\ archived = << received[1], received[2] >>
    /\ Len(archiveQ) = 1
    /\ total_tokens = SumTokens(received)


(* C32: parse_request fails if and only if the body is not syntactically
   valid JSON: for every provider, a body that serde_json rejects gives the
   error, and every JSON value, whatever its shape and the types of its
   fields, gives an event. (In the code a JSON body reaches count_tokens,
   which panics in a process whose tokenizer cannot be built: the call then
   returns neither an event nor an error.) *)
C32_FailsOnlyOnInvalidJson ==
    (vendor # "" /\ out # NoOutput) =>
        /\ out.kind = "err" <=> doc = Malformed
        /\ doc # Malformed => out.kind = "parsed"


\* how many times event e occurs in a sequence of events
CountOf(events, e) == Cardinality({ i \in DOMAIN events : events[i] = e })

SubMultiset(a, b) == \A i \in DOMAIN a : CountOf(a, a[i]) <= CountOf(b, a[i])

(* C33: events are neither duplicated nor invented in the pipeline and both
   channels stay within their capacities, in every state, those after the
   dashboard has exited and the proxy and archive tasks are aborted
   included. What the archive writer has consumed, together with what waits
   on the archive channel and in the dashboard's send, is a sub-multiset of
   what the dashboard has received; that, together with what waits on the
   event channel, is a sub-multiset of what the handlers have enqueued; an
   event is enqueued once, by the handler of an accepted request, as the
   parse of that request, and never once the receiver is dropped. *)
C33_NoDuplicationNoInvention ==
    /\ [](/\ Len(eventQ) <= PrimaryCap
          /\ Len(archiveQ) <= ArchiveCap
          /\ SubMultiset(archived, received)
          /\ SubMultiset(received, enqueued)
          /\ SubMultiset(archived \o archiveQ \o pending, received)
          /\ SubMultiset(received \o eventQ, enqueued)
          /\ \A i \in DOMAIN enqueued :
                 /\ CountOf(enqueued, enqueued[i]) = 1
                 /\ enqueued[i].id[2] \in 1..accepted)
    /\ [][enqueued' # enqueued =>
            /\ ~event_rx_dropped
            /\ \E h \in Handlers :
                   /\ pc[h] = "parse"
                   /\ ValidJson(req[h].body)
                   /\ enqueued' = Append(enqueued,
                          parse_request(req[h].body, req[h].path, provider[h],
                                        reqId[h]).event)]_vars

\* run_server has returned and its tasks are aborted; of three events
\* enqueued the dashboard had received two and the archive writer one
C33_Witness ==
    /\ aggPc = "returned"
    /\ proxyPc = "aborted"
    /\ archPc = "aborted"
    /\ Len(enqueued) = 3
    /\ received = SubSeq(enqueued, 1, 2)
    /\ eventQ = << enqueued[3] >>
    /\ archived = << enqueued[1] >>
    /\ archiveQ = << enqueued[2] >>

====
